---- MODULE Spec2Model ----
(***************************************************************************)
(* Verification model of the interpolation engine of interpolator-ai.      *)
(*                                                                         *)
(* Numbers.  The program computes with Python floats.  The model computes  *)
(* with exact rationals <<numerator, denominator>> in lowest terms with a  *)
(* positive denominator, so rounding is abstracted: every value below is   *)
(* the value the code's formula has in exact arithmetic.  <<0, 0>> (NaR)   *)
(* is the outcome of a division by zero, where Python raises               *)
(* ZeroDivisionError; it propagates through every operation.               *)
(*                                                                         *)
(* Tolerances.  Model integers are 32 bit wide, so 1e-9, 1e-10 and 1e-15   *)
(* cannot be written next to inputs of size 1.  The three tolerances are   *)
(* placed between the distances of the input grid instead, in the order    *)
(* the code has them (1e-15 < 1e-10 < 1e-9), and the inputs contain        *)
(* x-values closer to each other than each of them.                        *)
(*                                                                         *)
(* Lists.  Python lists are sequences; At(s, i) reads the element the code *)
(* calls s[i] (0-based), Put(s, i, v) models s[i] = v.                     *)
(***************************************************************************)
EXTENDS Integers, Sequences, FiniteSets, TLC

VARIABLES pc, points, x_evals, dy_values, method, response, outcome,
          arg_A, arg_b, arg_pivot_strategy, arg_omega, arg_max_iterations,
          arg_x, arg_f, loc_x, loc_x_previous, loc_iteration,
          arg_method, arg_x0_index, agent_state, agent_steps, agent_results,
          env_graphing

\* the caller's lists A, b, x, f and scalar arguments of a call of a solver
solver_args == <<arg_A, arg_b, arg_pivot_strategy, arg_omega, arg_max_iterations, arg_x, arg_f>>

\* the locals x, x_previous and iteration of gauss_seidel_sor
solver_locals == <<loc_x, loc_x_previous, loc_iteration>>

solver_vars == <<solver_args, solver_locals>>

\* the arguments method and x0_index of a call of a Newton helper
helper_args == <<arg_method, arg_x0_index>>

\* the state of the extraction graph, the number of graph steps taken, the
\* list results of process_request, and for each request of the batch whether
\* the graphing and aggregation steps that follow its interpolation complete
agent_vars == <<agent_state, agent_steps, agent_results, env_graphing>>

other_vars == <<helper_args, agent_vars>>

vars ==
    <<pc, points, x_evals, dy_values, method, response, outcome,
      arg_A, arg_b, arg_pivot_strategy, arg_omega, arg_max_iterations,
      arg_x, arg_f, loc_x, loc_x_previous, loc_iteration,
      arg_method, arg_x0_index, agent_state, agent_steps, agent_results,
      env_graphing>>

-----------------------------------------------------------------------------
(* Exact rational arithmetic standing for float arithmetic *)

IAbs(n) == IF n < 0 THEN -n ELSE n

RECURSIVE Gcd(_, _)
Gcd(a, b) == IF b = 0 THEN a ELSE Gcd(b, a % b)

NaR == <<0, 0>>

IsNaR(a) == a[2] = 0

Rat(n, d) ==
    IF d = 0 THEN NaR
    ELSE LET g == Gcd(IAbs(n), IAbs(d))
             s == IF d < 0 THEN -1 ELSE 1
         IN  <<s * (n \div g), IAbs(d) \div g>>

RInt(n) == <<n, 1>>

RZero == <<0, 1>>

ROne == <<1, 1>>

RNeg(a) == IF IsNaR(a) THEN NaR ELSE <<-a[1], a[2]>>

RAdd(a, b) ==
    IF IsNaR(a) \/ IsNaR(b) THEN NaR
    ELSE LET g == Gcd(a[2], b[2])
         IN  Rat(a[1] * (b[2] \div g) + b[1] * (a[2] \div g), (a[2] \div g) * b[2])

RSub(a, b) == RAdd(a, RNeg(b))

RMul(a, b) ==
    IF IsNaR(a) \/ IsNaR(b) THEN NaR
    ELSE LET g1 == Gcd(IAbs(a[1]), b[2])
             g2 == Gcd(IAbs(b[1]), a[2])
         IN  Rat((a[1] \div g1) * (b[1] \div g2), (a[2] \div g2) * (b[2] \div g1))

RDiv(a, b) ==
    IF IsNaR(a) \/ IsNaR(b) \/ b[1] = 0 THEN NaR
    ELSE RMul(a, IF b[1] < 0 THEN <<-b[2], -b[1]>> ELSE <<b[2], b[1]>>)

RAbs(a) == IF IsNaR(a) THEN NaR ELSE <<IAbs(a[1]), a[2]>>

RLt(a, b) == a[1] * b[2] < b[1] * a[2]

RLe(a, b) == a[1] * b[2] <= b[1] * a[2]

RECURSIVE RPow(_, _)
RPow(a, i) == IF i = 0 THEN ROne ELSE RMul(a, RPow(a, i - 1))

-----------------------------------------------------------------------------
(* Python lists *)

\* a list whose elements are computed once, when it is built
List(f) == f \o <<>>

At(s, i) == s[i + 1]

Put(s, i, v) == [s EXCEPT ![i + 1] = v]

Zeros(n) == List([j \in 1..n |-> RZero])

HasNaR(s) == \E j \in 1..Len(s) : IsNaR(s[j])

\* a duplicate test that looks at neighbours only
HasEqualPair_adjacent(xs) == \E i \in 1..(Len(xs) - 1) : xs[i] = xs[i + 1]

\* a duplicate test with the tolerance of the Vandermonde solver
HasEqualPair_near(xs) ==
    \E i, j \in 1..Len(xs) :
        i < j /\ RLt(RAbs(RSub(xs[i], xs[j])), <<5, 4>>)

\* len(set(xs)) != len(xs): two elements compare equal
HasEqualPair(xs) == \E i, j \in 1..Len(xs) : i < j /\ xs[i] = xs[j]

\* sorted(points, key=lambda p: p[0]): stable insertion by the x-coordinate
RECURSIVE InsertByX(_, _)
InsertByX(s, p) ==
    IF s = <<>> THEN <<p>>
    ELSE IF RLt(p[1], s[Len(s)][1])
         THEN Append(InsertByX(SubSeq(s, 1, Len(s) - 1), p), s[Len(s)])
         ELSE Append(s, p)

RECURSIVE SortedByX(_)
SortedByX(ps) ==
    IF ps = <<>> THEN <<>>
    ELSE InsertByX(SortedByX(SubSeq(ps, 1, Len(ps) - 1)), ps[Len(ps)])

XsOf(ps) == List([j \in 1..Len(ps) |-> ps[j][1]])

YsOf(ps) == List([j \in 1..Len(ps) |-> ps[j][2]])

-----------------------------------------------------------------------------
(* Outcome of a call: a returned value or a raised exception *)

Returned(v) == [raised |-> "", msg |-> "", value |-> v]

Raised(type, m) == [raised |-> type, msg |-> m, value |-> <<>>]

-----------------------------------------------------------------------------
(* utils/general_util.py *)

RECURSIVE horner(_, _, _, _)
horner(coeffs, x, i, result) ==
    IF i < 0 THEN result
    ELSE horner(coeffs, x, i - 1, RAdd(RMul(result, x), At(coeffs, i)))

evaluate_polynomial(coeffs, x) == horner(coeffs, x, Len(coeffs) - 1, RZero)

RECURSIVE conv_sum(_, _, _, _)
conv_sum(p1, p2, k, i) ==
    IF i >= Len(p1) THEN RZero
    ELSE LET j == k - i
             rest == conv_sum(p1, p2, k, i + 1)
         IN  IF j >= 0 /\ j < Len(p2)
             THEN RAdd(RMul(At(p1, i), At(p2, j)), rest)
             ELSE rest

multiply_polynomials(p1, p2) ==
    List([k1 \in 1..(Len(p1) + Len(p2) - 1) |-> conv_sum(p1, p2, k1 - 1, 0)])

-----------------------------------------------------------------------------
(* tools/equation_solver.py *)

BP_TOLERANCE == <<5, 4>>

bp_has_duplicate(x, tolerance) ==
    \E i, j \in 0..(Len(x) - 1) :
        i < j /\ RLt(RAbs(RSub(At(x, i), At(x, j))), tolerance)

\* Phase 1: for k in range(n - 1): for i in range(n - 1, k, -1)
RECURSIVE bp_phase1(_, _, _, _, _)
bp_phase1(x, c, k, i, tolerance) ==
    LET n == Len(x)
    IN  IF k > n - 2 THEN Returned(c)
        ELSE IF i <= k THEN bp_phase1(x, c, k + 1, n - 1, tolerance)
        ELSE LET diff == RSub(At(x, i), At(x, i - k - 1))
             IN  IF RLt(RAbs(diff), tolerance)
                 THEN Raised("ValueError", "ERROR: Near-duplicate nodes detected in Phase 1!")
                 ELSE bp_phase1(x,
                                Put(c, i, RDiv(RSub(At(c, i), At(c, i - 1)), diff)),
                                k, i - 1, tolerance)

\* Phase 2: for k in range(n - 2, -1, -1): for i in range(k, n - 1)
RECURSIVE bp_phase2(_, _, _, _)
bp_phase2(x, c, k, i) ==
    LET n == Len(x)
    IN  IF k < 0 THEN c
        ELSE IF i > n - 2 THEN bp_phase2(x, c, k - 1, k - 1)
        ELSE bp_phase2(x, Put(c, i, RSub(At(c, i), RMul(At(x, k), At(c, i + 1)))), k, i + 1)

bjorck_pereyra(x, f, tolerance) ==
    LET n == Len(x)
    IN  IF Len(f) # n
        THEN Raised("ValueError", "ERROR: Length mismatch")
        ELSE IF n < 1
        THEN Raised("ValueError", "ERROR: At least 1 data point required for interpolation.")
        ELSE IF bp_has_duplicate(x, tolerance)
        THEN Raised("ValueError", "ERROR: Duplicate nodes detected!")
        ELSE IF n = 1 THEN Returned(f)
        ELSE LET p1 == bp_phase1(x, f, 0, n - 1, tolerance)
             IN  IF p1.raised # "" THEN p1
                 ELSE Returned(bp_phase2(x, p1.value, n - 2, n - 2))

-----------------------------------------------------------------------------
(* utils/lagrange_interpolation_util.py *)

\* numerator of L_k: [1.0] multiplied by [-x_i, 1.0] for i = 0..n-1, i # k
RECURSIVE lagrange_numerator(_, _, _, _)
lagrange_numerator(x_values, k, i, L_k_coeffs) ==
    IF i >= Len(x_values) THEN L_k_coeffs
    ELSE lagrange_numerator(x_values, k, i + 1,
            IF i # k
            THEN multiply_polynomials(L_k_coeffs, <<RNeg(At(x_values, i)), ROne>>)
            ELSE L_k_coeffs)

\* the denominator without its factors: L_k left unnormalised
lagrange_denominator_one(x_values, k, i, denominator) == ROne

\* denominator of L_k: product of (x_k - x_i) for i # k
RECURSIVE lagrange_denominator(_, _, _, _)
lagrange_denominator(x_values, k, i, denominator) ==
    IF i >= Len(x_values) THEN denominator
    ELSE lagrange_denominator(x_values, k, i + 1,
            IF i # k
            THEN RMul(denominator, RSub(At(x_values, k), At(x_values, i)))
            ELSE denominator)

RECURSIVE lagrange_accumulate(_, _, _, _)
lagrange_accumulate(x_values, y_values, k, result_coeffs) ==
    IF k >= Len(x_values) THEN result_coeffs
    ELSE LET L_k_coeffs == lagrange_numerator(x_values, k, 0, <<ROne>>)
             denominator == lagrange_denominator(x_values, k, 0, ROne)
         IN  lagrange_accumulate(x_values, y_values, k + 1,
                List([j \in 1..Len(result_coeffs) |->
                    RAdd(result_coeffs[j],
                         RMul(RDiv(L_k_coeffs[j], denominator), At(y_values, k)))]))

get_lagrange_coefficients(ps) ==
    lagrange_accumulate(XsOf(ps), YsOf(ps), 0, Zeros(Len(ps)))

-----------------------------------------------------------------------------
(* utils/newton_interpolation_util.py *)

EQ_TOLERANCE == <<3, 2>>

MSG_EQUIDISTANT == "Points must be equidistant for Newton interpolation. "

steps_of(x_values) ==
    List([i \in 1..(Len(x_values) - 1) |-> RSub(x_values[i + 1], x_values[i])])

\* the comparison without abs(): only steps longer than h count
validate_equidistant_no_abs(x_values, tolerance) ==
    IF Len(x_values) < 2
    THEN Raised("ValueError", "At least 2 points required for equidistant validation.")
    ELSE LET steps == steps_of(x_values)
             h == steps[1]
         IN  IF \E i \in 1..Len(steps) : RLt(tolerance, RSub(steps[i], h))
             THEN Raised("ValueError", MSG_EQUIDISTANT)
             ELSE Returned(h)

validate_equidistant(x_values, tolerance) ==
    IF Len(x_values) < 2
    THEN Raised("ValueError", "At least 2 points required for equidistant validation.")
    ELSE LET steps == steps_of(x_values)
             h == steps[1]
         IN  IF \E i \in 1..Len(steps) : RLt(tolerance, RAbs(RSub(steps[i], h)))
             THEN Raised("ValueError", MSG_EQUIDISTANT)
             ELSE Returned(h)

\* differences taken the other way round: prev_level[j] - prev_level[j + 1]
next_level_backwards(prev_level) ==
    List([j \in 1..(Len(prev_level) - 1) |-> RSub(prev_level[j], prev_level[j + 1])])

next_level(prev_level) ==
    List([j \in 1..(Len(prev_level) - 1) |-> RSub(prev_level[j + 1], prev_level[j])])

RECURSIVE difference_levels(_, _, _)
difference_levels(table, level, n) ==
    IF level >= n THEN table
    ELSE difference_levels(Append(table, next_level(At(table, level - 1))), level + 1, n)

compute_difference_table(y_values) ==
    difference_levels(<<y_values>>, 1, Len(y_values))

\* the linear factor (t - a) in place of (t + a)
times_linear_minus(poly, a) ==
    List([j \in 1..(Len(poly) + 1) |->
        RSub(IF j >= 2 THEN poly[j - 1] ELSE RZero,
             IF j <= Len(poly) THEN RMul(poly[j], a) ELSE RZero)])

\* multiply a coefficient list by the linear factor (t + a): new_poly[j] += p[j]*a,
\* new_poly[j + 1] += p[j]
times_linear(poly, a) ==
    List([j \in 1..(Len(poly) + 1) |->
        RAdd(IF j <= Len(poly) THEN RMul(poly[j], a) ELSE RZero,
             IF j >= 2 THEN poly[j - 1] ELSE RZero)])

\* binomial_poly after the loop "for i in range(k)": [1.0] multiplied by
\* (s + sign*i) for i = 0..k-1; sign is -1 in the forward helper, +1 in the backward
RECURSIVE binomial_loop(_, _, _, _)
binomial_loop(k, sign, i, poly) ==
    IF i >= k THEN poly
    ELSE binomial_loop(k, sign, i + 1, times_linear(poly, RInt(sign * i)))

binomial_poly(k, sign) == binomial_loop(k, sign, 0, <<ROne>>)

RECURSIVE factorial(_)
factorial(k) == IF k <= 0 THEN 1 ELSE k * factorial(k - 1)

\* result_coeffs[j] += (binomial_poly[j] / factorial) * diff_value
add_term(result_coeffs, poly, scale) ==
    List([j \in 1..Len(result_coeffs) |->
        IF j <= Len(poly)
        THEN RAdd(result_coeffs[j], RMul(poly[j], scale))
        ELSE result_coeffs[j]])

add_binomial_term(result_coeffs, k, sign, diff_value) ==
    LET bp == binomial_poly(k, sign)
    IN  List([j \in 1..Len(result_coeffs) |->
            IF j <= Len(bp)
            THEN RAdd(result_coeffs[j],
                      RMul(RDiv(bp[j], RInt(factorial(k))), diff_value))
            ELSE result_coeffs[j]])

\* term_poly after "for _ in range(i)": (x - x0)^i
RECURSIVE term_poly(_, _)
term_poly(x0, i) ==
    IF i = 0 THEN <<ROne>> ELSE times_linear(term_poly(x0, i - 1), RNeg(x0))

\* the conversion from s = (x - x0)/h to x, shared by forward and backward
RECURSIVE s_to_x(_, _, _, _, _)
s_to_x(result_coeffs, x0, h, i, final_coeffs) ==
    IF i >= Len(result_coeffs) THEN final_coeffs
    ELSE LET ci == At(result_coeffs, i)
         IN  IF ci = RZero
             THEN s_to_x(result_coeffs, x0, h, i + 1, final_coeffs)
             ELSE s_to_x(result_coeffs, x0, h, i + 1,
                         add_term(final_coeffs, term_poly(x0, i), RDiv(ci, RPow(h, i))))

\* terms taken from the first entry of every level, whatever the anchor
RECURSIVE forward_terms_first_entry(_, _, _, _, _)
forward_terms_first_entry(difference_table, x0_index, n, k, result_coeffs) ==
    IF k >= n - x0_index THEN result_coeffs
    ELSE IF k >= Len(difference_table) \/ x0_index >= Len(At(difference_table, k))
    THEN result_coeffs
    ELSE forward_terms_first_entry(difference_table, x0_index, n, k + 1,
            add_binomial_term(result_coeffs, k, -1,
                              At(At(difference_table, k), 0)))

RECURSIVE forward_terms(_, _, _, _, _)
forward_terms(difference_table, x0_index, n, k, result_coeffs) ==
    IF k >= n - x0_index THEN result_coeffs
    ELSE IF k >= Len(difference_table) \/ x0_index >= Len(At(difference_table, k))
    THEN result_coeffs
    ELSE forward_terms(difference_table, x0_index, n, k + 1,
            add_binomial_term(result_coeffs, k, -1,
                              At(At(difference_table, k), x0_index)))

get_newton_forward_coefficients(y_values, x_values, x0_index, h) ==
    LET n == Len(y_values)
        difference_table == compute_difference_table(y_values)
        x0 == At(x_values, x0_index)
        result_coeffs == forward_terms(difference_table, x0_index, n, 0, Zeros(n))
    IN  s_to_x(result_coeffs, x0, h, 0, Zeros(n))

IMin(a, b) == IF a < b THEN a ELSE b

RECURSIVE backward_terms(_, _, _, _, _)
backward_terms(difference_table, x0_index, max_k, k, result_coeffs) ==
    IF k >= max_k THEN result_coeffs
    ELSE LET diff_index == x0_index - k
         IN  IF diff_index < 0 \/ diff_index >= Len(At(difference_table, k))
             THEN result_coeffs
             ELSE backward_terms(difference_table, x0_index, max_k, k + 1,
                     add_binomial_term(result_coeffs, k, 1,
                                       At(At(difference_table, k), diff_index)))

get_newton_backward_coefficients(y_values, x_values, x0_index, h) ==
    LET n == Len(y_values)
        difference_table == compute_difference_table(y_values)
        x0 == At(x_values, x0_index)
        max_k == IMin(x0_index + 1, Len(difference_table))
        result_coeffs == backward_terms(difference_table, x0_index, max_k, 0, Zeros(n))
    IN  s_to_x(result_coeffs, x0, h, 0, Zeros(n))

IMax(a, b) == IF a < b THEN b ELSE a

\* an index selection that takes the left endpoint for both methods
select_optimal_x0_index_left(x_values, x_eval, method_) ==
    LET n == Len(x_values)
        inside == {i \in 0..(n - 2) :
                      RLe(At(x_values, i), x_eval) /\ RLe(x_eval, At(x_values, i + 1))}
    IN  IF method_ \notin {"forward", "backward"}
        THEN Raised("ValueError", "Method must be 'forward' or 'backward'")
        ELSE IF n = 0 THEN Raised("IndexError", "list index out of range")
        ELSE IF RLe(x_eval, At(x_values, 0)) THEN Returned(0)
        ELSE IF RLe(At(x_values, n - 1), x_eval) THEN Returned(IMax(0, n - 2))
        ELSE IF inside = {} THEN Returned(0)
        ELSE Returned(CHOOSE i \in inside : \A k \in inside : i <= k)

\* select_optimal_x0_index(x_values, x_eval, method): the first interval
\* [x_i, x_i+1] that contains x_eval gives i (forward) or i + 1 (backward)
select_optimal_x0_index(x_values, x_eval, method_) ==
    LET n == Len(x_values)
        forward == method_ = "forward"
        inside == {i \in 0..(n - 2) :
                      RLe(At(x_values, i), x_eval) /\ RLe(x_eval, At(x_values, i + 1))}
    IN  IF method_ \notin {"forward", "backward"}
        THEN Raised("ValueError", "Method must be 'forward' or 'backward'")
        ELSE IF n = 0 THEN Raised("IndexError", "list index out of range")
        ELSE IF RLe(x_eval, At(x_values, 0))
        THEN Returned(IF forward THEN 0 ELSE IMin(1, n - 1))
        ELSE IF RLe(At(x_values, n - 1), x_eval)
        THEN Returned(IF forward THEN IMax(0, n - 2) ELSE n - 1)
        ELSE IF inside = {}
        THEN Returned(IF forward THEN 0 ELSE n - 1)
        ELSE LET i == CHOOSE i \in inside : \A k \in inside : i <= k
             IN  Returned(IF forward THEN i ELSE i + 1)

-----------------------------------------------------------------------------
(* utils/hermite_interpolation_util.py *)

HERMITE_EPS == <<1, 2>>

\* z = [x0, x0, x1, x1, ...]
doubled(x_values) == List([i \in 1..(2 * Len(x_values)) |-> x_values[(i + 1) \div 2]])

\* column 0 of Q: Q[2i][0] = Q[2i+1][0] = y_i
hermite_col0(y_values) == doubled(y_values)

\* column 1 of Q: dy_i at even rows, the divided difference between consecutive
\* distinct nodes at odd rows; the last row keeps its initial 0.0
hermite_col1(z, col0, dy_values_, n) ==
    List([r \in 1..(2 * n) |->
        LET row == r - 1
            i == row \div 2
        IN  IF row % 2 = 0 THEN At(dy_values_, i)
            ELSE IF i < n - 1
            THEN RDiv(RSub(At(col0, 2 * i + 2), At(col0, 2 * i + 1)),
                      RSub(At(z, 2 * i + 2), At(z, 2 * i + 1)))
            ELSE RZero])

\* column j >= 2 of Q from column j - 1; rows size-j.. keep their initial 0.0
hermite_col(z, prev, j, size) ==
    List([r \in 1..size |->
        LET i == r - 1
        IN  IF i >= size - j THEN RZero
            ELSE IF RLt(RAbs(RSub(At(z, i + j), At(z, i))), HERMITE_EPS)
            THEN RZero
            ELSE RDiv(RSub(At(prev, i + 1), At(prev, i)),
                      RSub(At(z, i + j), At(z, i)))])

\* nested_coeffs = [Q[0][j] for j in range(size)], built column by column
RECURSIVE hermite_top_row(_, _, _, _, _)
hermite_top_row(z, prev, j, size, nested_coeffs) ==
    IF j >= size THEN nested_coeffs
    ELSE LET col == hermite_col(z, prev, j, size)
         IN  hermite_top_row(z, col, j + 1, size, Append(nested_coeffs, At(col, 0)))

\* one step of the loop: multiply poly by (x - nodes[i]), add nested_coeffs[i]
nested_step(poly, node, c) ==
    List([j \in 1..(Len(poly) + 1) |->
        LET shifted == IF j >= 2 THEN poly[j - 1] ELSE RZero
            scaled == IF j <= Len(poly) THEN RMul(node, poly[j]) ELSE RZero
            added == IF j = 1 THEN c ELSE RZero
        IN  RAdd(RSub(shifted, scaled), added)])

RECURSIVE nested_loop(_, _, _, _)
nested_loop(nested_coeffs, nodes, i, poly) ==
    IF i < 0 THEN poly
    ELSE nested_loop(nested_coeffs, nodes, i - 1,
                     nested_step(poly, At(nodes, i), At(nested_coeffs, i)))

convert_nested_to_standard(nested_coeffs, nodes) ==
    LET n == Len(nested_coeffs)
    IN  nested_loop(nested_coeffs, nodes, n - 2, <<At(nested_coeffs, n - 1)>>)

get_hermite_coefficients(x_values, y_values, dy_values_) ==
    LET n == Len(x_values)
        z == doubled(x_values)
        size == 2 * n
        col0 == hermite_col0(y_values)
        col1 == hermite_col1(z, col0, dy_values_, n)
        nested_coeffs == hermite_top_row(z, col1, 2, size, <<At(col0, 0), At(col1, 0)>>)
    IN  IF n = 0
        THEN \* nested_coeffs[-1] of the empty list
             Raised("IndexError", "list index out of range")
        ELSE IF HasNaR(col1)
        THEN Raised("ZeroDivisionError", "float division by zero")
        ELSE Returned(convert_nested_to_standard(nested_coeffs, z))

-----------------------------------------------------------------------------
(* The evaluation argument and the response of a builder *)

NoneValue == [kind |-> "None", v |-> <<>>]

ListValue(xs) == [kind |-> "list", v |-> xs]

FloatValue(x) == [kind |-> "float", v |-> <<x>>]

\* Python truth value of the argument in "if x_evals:"
Truthy(xe) ==
    \/ xe.kind = "list" /\ xe.v # <<>>
    \/ xe.kind = "float" /\ xe.v[1] # RZero

\* InterpolationResponse(results=..., coefficients=..., polynomial_degree=...).model_dump()
InterpolationResponse(results, coefficients, polynomial_degree) ==
    [raised |-> "", msg |-> "", results |-> results,
     coefficients |-> coefficients, polynomial_degree |-> polynomial_degree]

\* a builder call that ends in an exception returns nothing
Raises(type, m) ==
    [raised |-> type, msg |-> m, results |-> NoneValue,
     coefficients |-> <<>>, polynomial_degree |-> -1]

NoResponse == Raises("", "")

MSG_DUPLICATE == "Duplicate x-coordinates detected in input points."

MSG_NOT_ITERABLE == "'float' object is not iterable"

MSG_ZERO_DIVISION == "float division by zero"

\* results = [evaluate_polynomial(coefficients, x) for x in x_evals]
evaluate_all(coefficients, xs) ==
    List([j \in 1..Len(xs) |-> evaluate_polynomial(coefficients, xs[j])])

-----------------------------------------------------------------------------
(* src/direct_interpolation.py *)

\* res = 0.0; for coef in reversed(coefficients): res = res * x + coef
RECURSIVE direct_horner(_, _, _)
direct_horner(rev, x, res) ==
    IF rev = <<>> THEN res
    ELSE direct_horner(Tail(rev), x, RAdd(RMul(res, x), Head(rev)))

reversed(s) == List([j \in 1..Len(s) |-> s[Len(s) + 1 - j]])

\* the builder with the point-count check lowered to one point
direct_interpolation_min1(ps, xe) ==
    IF Len(ps) < 1
    THEN Raises("ValueError", "At least 2 points required for polynomial interpolation.")
    ELSE IF HasEqualPair(XsOf(ps))
    THEN Raises("ValueError", MSG_DUPLICATE)
    ELSE LET solved == bjorck_pereyra(XsOf(ps), YsOf(ps), BP_TOLERANCE)
             coefficients == solved.value
         IN  IF solved.raised # "" THEN Raises(solved.raised, solved.msg)
             ELSE IF ~Truthy(xe)
             THEN InterpolationResponse(NoneValue, coefficients, Len(ps) - 1)
             ELSE IF xe.kind = "float" THEN Raises("TypeError", MSG_NOT_ITERABLE)
             ELSE InterpolationResponse(
                      ListValue(List([j \in 1..Len(xe.v) |->
                                    direct_horner(reversed(coefficients), xe.v[j], RZero)])),
                      coefficients, Len(ps) - 1)

direct_interpolation(ps, xe) ==
    IF Len(ps) < 2
    THEN Raises("ValueError", "At least 2 points required for polynomial interpolation.")
    ELSE IF HasEqualPair(XsOf(ps))
    THEN Raises("ValueError", MSG_DUPLICATE)
    ELSE LET solved == bjorck_pereyra(XsOf(ps), YsOf(ps), BP_TOLERANCE)
             coefficients == solved.value
         IN  IF solved.raised # "" THEN Raises(solved.raised, solved.msg)
             ELSE IF ~Truthy(xe)
             THEN InterpolationResponse(NoneValue, coefficients, Len(ps) - 1)
             ELSE IF xe.kind = "float" THEN Raises("TypeError", MSG_NOT_ITERABLE)
             ELSE InterpolationResponse(
                      ListValue(List([j \in 1..Len(xe.v) |->
                                    direct_horner(reversed(coefficients), xe.v[j], RZero)])),
                      coefficients, Len(ps) - 1)

-----------------------------------------------------------------------------
(* src/lagrange_interpolation.py *)

lagrange_interpolation(ps, xe) ==
    IF Len(ps) < 2
    THEN Raises("ValueError", "At least 2 points required for polynomial interpolation.")
    ELSE IF HasEqualPair(XsOf(ps))
    THEN Raises("ValueError", MSG_DUPLICATE)
    ELSE LET coefficients == get_lagrange_coefficients(ps)
         IN  IF HasNaR(coefficients) THEN Raises("ZeroDivisionError", MSG_ZERO_DIVISION)
             \* evaluate_polynomial(coefficients, x_eval) computes result * x_eval
             ELSE IF xe.kind = "None"
             THEN Raises("TypeError", "unsupported operand type(s) for *: 'float' and 'NoneType'")
             ELSE IF xe.kind = "list"
             THEN Raises("TypeError", "can't multiply sequence by non-int of type 'float'")
             ELSE \* the keyword result= is not a field of the response
                  InterpolationResponse(NoneValue, coefficients, Len(ps) - 1)

-----------------------------------------------------------------------------
(* src/newton_forward_interpolation.py, src/newton_backward_interpolation.py *)

\* a builder that validates the spacing before it looks for equal x
newton_forward_interpolation_spacing_first(ps, xe) ==
    IF Len(ps) < 2
    THEN Raises("ValueError", "At least 2 points required for Newton forward interpolation.")
    ELSE LET sorted_points == SortedByX(ps)
             x_values == XsOf(sorted_points)
             y_values == YsOf(sorted_points)
             valid == validate_equidistant(x_values, EQ_TOLERANCE)
             coefficients ==
                 get_newton_forward_coefficients(y_values, x_values, 0, valid.value)
         IN  IF valid.raised # "" THEN Raises(valid.raised, valid.msg)
             ELSE IF HasEqualPair(x_values) THEN Raises("ValueError", MSG_DUPLICATE)
             ELSE IF HasNaR(coefficients) THEN Raises("ZeroDivisionError", MSG_ZERO_DIVISION)
             ELSE IF ~Truthy(xe)
             THEN InterpolationResponse(NoneValue, coefficients, Len(ps) - 1)
             ELSE IF xe.kind = "float" THEN Raises("TypeError", MSG_NOT_ITERABLE)
             ELSE InterpolationResponse(ListValue(evaluate_all(coefficients, xe.v)),
                                        coefficients, Len(ps) - 1)

newton_forward_interpolation(ps, xe) ==
    IF Len(ps) < 2
    THEN Raises("ValueError", "At least 2 points required for Newton forward interpolation.")
    ELSE LET sorted_points == SortedByX(ps)
             x_values == XsOf(sorted_points)
             y_values == YsOf(sorted_points)
             valid == validate_equidistant(x_values, EQ_TOLERANCE)
             coefficients ==
                 get_newton_forward_coefficients(y_values, x_values, 0, valid.value)
         IN  IF HasEqualPair(x_values) THEN Raises("ValueError", MSG_DUPLICATE)
             ELSE IF valid.raised # "" THEN Raises(valid.raised, valid.msg)
             ELSE IF HasNaR(coefficients) THEN Raises("ZeroDivisionError", MSG_ZERO_DIVISION)
             ELSE IF ~Truthy(xe)
             THEN InterpolationResponse(NoneValue, coefficients, Len(ps) - 1)
             ELSE IF xe.kind = "float" THEN Raises("TypeError", MSG_NOT_ITERABLE)
             ELSE InterpolationResponse(ListValue(evaluate_all(coefficients, xe.v)),
                                        coefficients, Len(ps) - 1)

newton_backward_interpolation(ps, xe) ==
    IF Len(ps) < 2
    THEN Raises("ValueError", "At least 2 points required for Newton backward interpolation.")
    ELSE LET sorted_points == SortedByX(ps)
             x_values == XsOf(sorted_points)
             y_values == YsOf(sorted_points)
             valid == validate_equidistant(x_values, EQ_TOLERANCE)
             x0_index == Len(x_values) - 1
             coefficients ==
                 get_newton_backward_coefficients(y_values, x_values, x0_index,
                                                  valid.value)
         IN  IF HasEqualPair(x_values) THEN Raises("ValueError", MSG_DUPLICATE)
             ELSE IF valid.raised # "" THEN Raises(valid.raised, valid.msg)
             ELSE IF HasNaR(coefficients) THEN Raises("ZeroDivisionError", MSG_ZERO_DIVISION)
             ELSE IF ~Truthy(xe)
             THEN InterpolationResponse(NoneValue, coefficients, Len(ps) - 1)
             ELSE IF xe.kind = "float" THEN Raises("TypeError", MSG_NOT_ITERABLE)
             ELSE InterpolationResponse(ListValue(evaluate_all(coefficients, xe.v)),
                                        coefficients, Len(ps) - 1)

-----------------------------------------------------------------------------
(* src/hermite_interpolation.py *)

\* numpy.gradient(y, x) with the default edge_order=1: one-sided differences at
\* the two ends, the second-order formula for uneven spacing inside
np_gradient(y, x) ==
    LET n == Len(x)
        dx(i) == RSub(At(x, i + 1), At(x, i))
    IN  List([r \in 1..n |->
            LET i == r - 1
            IN  IF i = 0 THEN RDiv(RSub(At(y, 1), At(y, 0)), dx(0))
                ELSE IF i = n - 1
                THEN RDiv(RSub(At(y, n - 1), At(y, n - 2)), dx(n - 2))
                ELSE LET dx1 == dx(i - 1)
                         dx2 == dx(i)
                         a == RNeg(RDiv(dx2, RMul(dx1, RAdd(dx1, dx2))))
                         b == RDiv(RSub(dx2, dx1), RMul(dx1, dx2))
                         c == RDiv(dx1, RMul(dx2, RAdd(dx1, dx2)))
                     IN  RAdd(RAdd(RMul(a, At(y, i - 1)), RMul(b, At(y, i))),
                              RMul(c, At(y, i + 1)))])

\* the degree as the docstring words it ("2n+1") read with n = len(points)
hermite_degree_docstring(ps) == 2 * Len(ps) + 1

\* polynomial_degree = 2 * len(points) - 1
hermite_degree(ps) == 2 * Len(ps) - 1

hermite_interpolation(ps, xe) ==
    IF Len(ps) < 2
    THEN Raises("ValueError", "At least 2 points required for Hermite interpolation.")
    ELSE IF HasEqualPair(XsOf(ps))
    THEN Raises("ValueError", MSG_DUPLICATE)
    ELSE LET sorted_points == SortedByX(ps)
             x_values == XsOf(sorted_points)
             y_values == YsOf(sorted_points)
             dy == np_gradient(y_values, x_values)
             got == get_hermite_coefficients(x_values, y_values, dy)
             coefficients == got.value
         IN  IF got.raised # "" THEN Raises(got.raised, got.msg)
             ELSE IF ~Truthy(xe)
             THEN InterpolationResponse(NoneValue, coefficients, hermite_degree(ps))
             ELSE IF xe.kind = "float" THEN Raises("TypeError", MSG_NOT_ITERABLE)
             ELSE InterpolationResponse(ListValue(evaluate_all(coefficients, xe.v)),
                                        coefficients, hermite_degree(ps))

-----------------------------------------------------------------------------
(* Matrices: a Python list of rows; M[i][j] is At(At(M, i), j) *)

MatGet(M, i, j) == At(At(M, i), j)

\* [[0.0 for _ in range(n)] for _ in range(n)]
ZeroMatrix(n) == List([i \in 1..n |-> Zeros(n)])

\* sum(s), added from the left
RECURSIVE SumList(_)
SumList(s) ==
    IF s = <<>> THEN RZero
    ELSE RAdd(SumList(SubSeq(s, 1, Len(s) - 1)), s[Len(s)])

\* sum(F(j) for j in range(lo, hi))
SumRange(lo, hi, F(_)) == SumList(List([t \in 1..(hi - lo) |-> F(lo + t - 1)]))

MSG_INDEX == "list index out of range"

-----------------------------------------------------------------------------
(* src/use_maybe/doolitle_equation_solver.py *)

\* the literal 1e-10 of the pivot checks of this file
LU_EPS == <<1, 2>>

MSG_LU_PIVOT == "LU decomposition does not exist."

MSG_LU_DIAGONAL == "System has no unique solution."

\* row i of U: for k in range(i, n): U[i][k] = A[i][k] - sum(L[i][j] * U[j][k])
lu_row(A, L, U, i, n) ==
    Put(U, i, List([c \in 1..n |->
        LET k == c - 1
        IN  IF k < i THEN RZero
            ELSE RSub(MatGet(A, i, k),
                      SumRange(0, i, LAMBDA j : RMul(MatGet(L, i, j), MatGet(U, j, k))))]))

\* a column of L whose entries are not divided by the pivot
lu_column_undivided(A, L, U, i, n) ==
    List([r \in 1..n |->
        LET k == r - 1
        IN  IF k < i THEN At(L, k)
            ELSE IF k = i THEN Put(At(L, k), i, ROne)
            ELSE Put(At(L, k), i,
                     RSub(MatGet(A, k, i),
                          SumRange(0, i, LAMBDA j : RMul(MatGet(L, k, j), MatGet(U, j, i)))))])

\* column i of L: L[i][i] = 1.0 and, for k in range(i + 1, n),
\* L[k][i] = (A[k][i] - sum(L[k][j] * U[j][i])) / U[i][i]
lu_column(A, L, U, i, n) ==
    List([r \in 1..n |->
        LET k == r - 1
        IN  IF k < i THEN At(L, k)
            ELSE IF k = i THEN Put(At(L, k), i, ROne)
            ELSE Put(At(L, k), i,
                     RDiv(RSub(MatGet(A, k, i),
                               SumRange(0, i, LAMBDA j : RMul(MatGet(L, k, j), MatGet(U, j, i)))),
                          MatGet(U, i, i)))])

\* the loop "for i in range(n)"; a row of A shorter than the loop reads raises
\* IndexError, the pivot check comes before the read of A[k][i]
RECURSIVE lu_stage(_, _, _, _)
lu_stage(A, L, U, i) ==
    LET n == Len(A)
    IN  IF i >= n THEN Returned(<<L, U>>)
        ELSE IF Len(At(A, i)) < n THEN Raised("IndexError", MSG_INDEX)
        ELSE LET U1 == lu_row(A, L, U, i, n)
             IN  IF i = n - 1 THEN lu_stage(A, lu_column(A, L, U1, i, n), U1, i + 1)
                 ELSE IF RLt(RAbs(MatGet(U1, i, i)), LU_EPS)
                 THEN Raised("ValueError", MSG_LU_PIVOT)
                 ELSE IF \E k \in (i + 1)..(n - 1) : Len(At(A, k)) <= i
                 THEN Raised("IndexError", MSG_INDEX)
                 ELSE lu_stage(A, lu_column(A, L, U1, i, n), U1, i + 1)

lu_decomposition(A) == lu_stage(A, ZeroMatrix(Len(A)), ZeroMatrix(Len(A)), 0)

\* y[0] = b[0]; y[i] = b[i] - sum(L[i][j] * y[j]); L[i] is read for i >= 1
RECURSIVE forward_loop(_, _, _, _)
forward_loop(L, b_, i, y) ==
    IF i >= Len(b_) THEN Returned(y)
    ELSE IF i = 0 THEN forward_loop(L, b_, 1, Put(y, 0, At(b_, 0)))
    ELSE IF i >= Len(L) THEN Raised("IndexError", MSG_INDEX)
    ELSE forward_loop(L, b_, i + 1,
             Put(y, i, RSub(At(b_, i),
                            SumRange(0, i, LAMBDA j : RMul(MatGet(L, i, j), At(y, j))))))

forward_substitution(L, b_) == forward_loop(L, b_, 0, Zeros(Len(b_)))

\* a backward substitution that divides by whatever pivot it meets
RECURSIVE backward_loop_unchecked(_, _, _, _)
backward_loop_unchecked(U, y, i, x_) ==
    IF i < 0 THEN Returned(x_)
    ELSE IF i >= Len(U) THEN Raised("IndexError", MSG_INDEX)
    ELSE backward_loop_unchecked(U, y, i - 1,
             Put(x_, i, RDiv(RSub(At(y, i),
                                  SumRange(i + 1, Len(y),
                                           LAMBDA j : RMul(MatGet(U, i, j), At(x_, j)))),
                             MatGet(U, i, i))))

\* for i in range(n - 1, -1, -1): x[i] = (y[i] - sum(U[i][j] * x[j])) / U[i][i],
\* refused when abs(U[i][i]) < 1e-10
RECURSIVE backward_loop(_, _, _, _)
backward_loop(U, y, i, x_) ==
    LET n == Len(y)
    IN  IF i < 0 THEN Returned(x_)
        ELSE IF i >= Len(U) THEN Raised("IndexError", MSG_INDEX)
        ELSE IF RLt(RAbs(MatGet(U, i, i)), LU_EPS)
        THEN Raised("ValueError", MSG_LU_DIAGONAL)
        ELSE backward_loop(U, y, i - 1,
                 Put(x_, i, RDiv(RSub(At(y, i),
                                      SumRange(i + 1, n, LAMBDA j : RMul(MatGet(U, i, j), At(x_, j)))),
                                 MatGet(U, i, i))))

backward_substitution(U, y) == backward_loop(U, y, Len(y) - 1, Zeros(Len(y)))

\* doolittle(A, b): the value is (x, L, U)
doolittle(A, b_) ==
    LET lu == lu_decomposition(A)
        fwd == forward_substitution(lu.value[1], b_)
        bwd == backward_substitution(lu.value[2], fwd.value)
    IN  IF lu.raised # "" THEN lu
        ELSE IF fwd.raised # "" THEN fwd
        ELSE IF bwd.raised # "" THEN bwd
        ELSE Returned(<<bwd.value, lu.value[1], lu.value[2]>>)

-----------------------------------------------------------------------------
(* src/use_maybe/gauss_equation_solver.py *)

\* the default of the parameter tolerance, 1e-10
GAUSS_TOLERANCE == <<1, 2>>

MSG_GAUSS_ZERO_ROW == "ERROR: Row is effectively zero - matrix is singular!"

MSG_GAUSS_PIVOT == "ERROR: Matrix is singular or ill-conditioned!"

MSG_GAUSS_DIAGONAL == "ERROR: Diagonal element is less than tolerance!"

Swap(s, i, j) == Put(Put(s, i, At(s, j)), j, At(s, i))

\* max(abs(row[j]) for j in range(n))
RECURSIVE max_abs(_, _)
max_abs(row, n) ==
    IF n = 1 THEN RAbs(At(row, 0))
    ELSE LET m == max_abs(row, n - 1)
             v == RAbs(At(row, n - 1))
         IN  IF RLt(m, v) THEN v ELSE m

\* a scaling vector filled without the zero-row check
RECURSIVE scaling_vector_unchecked(_, _, _, _, _)
scaling_vector_unchecked(A, n, tolerance, i, s) ==
    IF i >= n THEN Returned(s)
    ELSE IF i >= Len(A) \/ Len(At(A, i)) < n THEN Raised("IndexError", MSG_INDEX)
    ELSE scaling_vector_unchecked(A, n, tolerance, i + 1, Append(s, max_abs(At(A, i), n)))

\* the loop that fills the scaling vector s (run only for "scaled")
RECURSIVE scaling_vector(_, _, _, _, _)
scaling_vector(A, n, tolerance, i, s) ==
    IF i >= n THEN Returned(s)
    ELSE IF i >= Len(A) \/ Len(At(A, i)) < n THEN Raised("IndexError", MSG_INDEX)
    ELSE LET max_value == max_abs(At(A, i), n)
         IN  IF RLt(max_value, tolerance) THEN Raised("ValueError", MSG_GAUSS_ZERO_ROW)
             ELSE scaling_vector(A, n, tolerance, i + 1, Append(s, max_value))

\* the quantity the pivot search compares for row i in column k
pivot_value(A, s, i, k, pivot_strategy, tolerance) ==
    IF pivot_strategy = "scaled"
    THEN IF RLt(tolerance, At(s, i)) THEN RDiv(RAbs(MatGet(A, i, k)), At(s, i)) ELSE RZero
    ELSE RAbs(MatGet(A, i, k))

\* for i in range(k + 1, n): if value > max_value: max_value = value; max_row = i
RECURSIVE find_max_row(_, _, _, _, _, _, _, _, _)
find_max_row(A, s, k, n, pivot_strategy, tolerance, i, max_value, max_row) ==
    IF i >= n THEN max_row
    ELSE LET value == pivot_value(A, s, i, k, pivot_strategy, tolerance)
         IN  IF RLt(max_value, value)
             THEN find_max_row(A, s, k, n, pivot_strategy, tolerance, i + 1, value, i)
             ELSE find_max_row(A, s, k, n, pivot_strategy, tolerance, i + 1, max_value, max_row)

\* rows below the pivot row: A[i][j] -= factor * A[k][j] for j in range(k, n)
eliminate_rows(A, k, n) ==
    List([r \in 1..Len(A) |->
        LET i == r - 1
            factor == RDiv(MatGet(A, i, k), MatGet(A, k, k))
        IN  IF i <= k \/ i >= n THEN At(A, i)
            ELSE List([c \in 1..Len(At(A, i)) |->
                     LET j == c - 1
                     IN  IF j < k \/ j >= n THEN MatGet(A, i, j)
                         ELSE RSub(MatGet(A, i, j), RMul(factor, MatGet(A, k, j)))])])

\* an elimination that leaves the constants as they were
eliminate_constants_skipped(A, b_, k, n) == b_

\* b[i] -= factor * b[k]
eliminate_constants(A, b_, k, n) ==
    List([r \in 1..Len(b_) |->
        LET i == r - 1
            factor == RDiv(MatGet(A, i, k), MatGet(A, k, k))
        IN  IF i <= k \/ i >= n THEN At(b_, i)
            ELSE RSub(At(b_, i), RMul(factor, At(b_, k)))])

\* the loop "for k in range(n - 1)": pivot search, swap, pivot check, elimination;
\* the value is the working (A, b) in upper triangular form
RECURSIVE elimination(_, _, _, _, _, _, _)
elimination(A, b_, s, n, pivot_strategy, tolerance, k) ==
    IF k >= n - 1 THEN Returned(<<A, b_>>)
    ELSE IF \E i \in k..(n - 1) : i >= Len(A) \/ Len(At(A, i)) <= k
    THEN Raised("IndexError", MSG_INDEX)
    ELSE LET max_row == find_max_row(A, s, k, n, pivot_strategy, tolerance, k + 1,
                                     pivot_value(A, s, k, k, pivot_strategy, tolerance), k)
             A1 == IF max_row # k THEN Swap(A, k, max_row) ELSE A
             b1 == IF max_row # k THEN Swap(b_, k, max_row) ELSE b_
             s1 == IF max_row # k /\ pivot_strategy = "scaled" THEN Swap(s, k, max_row) ELSE s
         IN  IF RLt(RAbs(MatGet(A1, k, k)), tolerance)
             THEN Raised("ValueError", MSG_GAUSS_PIVOT)
             ELSE IF \E i \in k..(n - 1) : Len(At(A1, i)) < n
             THEN Raised("IndexError", MSG_INDEX)
             ELSE elimination(eliminate_rows(A1, k, n), eliminate_constants(A1, b1, k, n),
                              s1, n, pivot_strategy, tolerance, k + 1)

\* for i in range(n - 1, -1, -1): solution[i] = (b[i] - sum(A[i][j] * solution[j])) / A[i][i]
RECURSIVE back_substitution(_, _, _, _, _)
back_substitution(A, b_, tolerance, i, solution) ==
    LET n == Len(b_)
    IN  IF i < 0 THEN Returned(solution)
        ELSE IF i >= Len(A) \/ Len(At(A, i)) < n THEN Raised("IndexError", MSG_INDEX)
        ELSE IF RLt(RAbs(MatGet(A, i, i)), tolerance)
        THEN Raised("ValueError", MSG_GAUSS_DIAGONAL)
        ELSE back_substitution(A, b_, tolerance, i - 1,
                 Put(solution, i,
                     RDiv(RSub(At(b_, i),
                               SumRange(i + 1, n, LAMBDA j : RMul(MatGet(A, i, j), At(solution, j)))),
                          MatGet(A, i, i))))

\* the working system after the scaling vector and the elimination loop
triangular_form(A, b_, pivot_strategy, tolerance) ==
    LET n == Len(b_)
        s == IF pivot_strategy = "scaled" THEN scaling_vector(A, n, tolerance, 0, <<>>)
             ELSE Returned(<<>>)
    IN  IF s.raised # "" THEN s
        ELSE elimination(A, b_, s.value, n, pivot_strategy, tolerance, 0)

gauss(A, b_, pivot_strategy, tolerance) ==
    LET upper == triangular_form(A, b_, pivot_strategy, tolerance)
    IN  IF upper.raised # "" THEN upper
        ELSE back_substitution(upper.value[1], upper.value[2], tolerance,
                               Len(b_) - 1, Zeros(Len(b_)))

-----------------------------------------------------------------------------
(* utils/equation_utils.py, imported by gauss_seidel_sor *)

\* check_diagonal_dominance(A): in every row the magnitude of the diagonal entry
\* exceeds the sum of the magnitudes of the other entries
check_diagonal_dominance(A) ==
    \A i \in 1..Len(A) :
        RLt(SumList(List([j \in 1..Len(A) |-> IF j = i THEN RZero ELSE RAbs(A[i][j])])),
            RAbs(A[i][i]))

\* get_initial_values(A, b): the initial guess, one of the strategies a caller
\* may supply: the zero vector or b[i] / A[i][i]
get_initial_values(A, b_) ==
    {Zeros(Len(b_)), List([i \in 1..Len(b_) |-> RDiv(b_[i], A[i][i])])}

-----------------------------------------------------------------------------
(* src/use_maybe/gauss_seidel_sor_equation_solver.py *)

\* the literal 1e-10 of the diagonal check
SOR_EPS == <<1, 2>>

\* the default of the parameter tolerance, 1e-6
SOR_TOLERANCE == <<3, 4>>

MSG_SOR_OMEGA == "ERROR: Relaxation coefficient omega is not valid!"

MSG_SOR_DOMINANCE == "Convergence not guaranteed - matrix A is not diagonally dominant!"

MSG_SOR_DIAGONAL == "ERROR: Diagonal element is (nearly) zero!"

\* a range check that lets the two ends of the interval through
invalid_omega_strict(omega) == RLt(omega, RZero) \/ RLt(RInt(2), omega)

\* omega <= 0 or omega >= 2
invalid_omega(omega) == RLe(omega, RZero) \/ RLe(RInt(2), omega)

\* a pass that divides by whatever diagonal entry it meets
RECURSIVE sweep_unchecked(_, _, _, _, _)
sweep_unchecked(A, b_, omega, x_, i) ==
    LET n == Len(b_)
    IN  IF i >= n THEN Returned(x_)
        ELSE LET R_i == RSub(At(b_, i),
                             SumRange(0, n, LAMBDA j : RMul(MatGet(A, i, j), At(x_, j))))
             IN  sweep_unchecked(A, b_, omega,
                     Put(x_, i, RAdd(At(x_, i), RMul(omega, RDiv(R_i, MatGet(A, i, i))))),
                     i + 1)

\* a pass computed from a frozen copy of the vector of the previous sweep
sweep_jacobi(A, b_, omega, x_, i) ==
    LET n == Len(b_)
    IN  IF \E k \in 0..(n - 1) : RLt(RAbs(MatGet(A, k, k)), SOR_EPS)
        THEN Raised("ValueError", MSG_SOR_DIAGONAL)
        ELSE Returned(List([k \in 1..n |->
                 RAdd(x_[k],
                      RMul(omega,
                           RDiv(RSub(b_[k], SumRange(0, n, LAMBDA j : RMul(A[k][j + 1], At(x_, j)))),
                                A[k][k])))]))

\* a pass whose residual leaves out the sum over the entries from i on
RECURSIVE sweep_without_upper(_, _, _, _, _)
sweep_without_upper(A, b_, omega, x_, i) ==
    LET n == Len(b_)
    IN  IF i >= n THEN Returned(x_)
        ELSE IF RLt(RAbs(MatGet(A, i, i)), SOR_EPS)
        THEN Raised("ValueError", MSG_SOR_DIAGONAL)
        ELSE LET sum_lower == SumRange(0, i, LAMBDA j : RMul(MatGet(A, i, j), At(x_, j)))
                 R_i == RSub(At(b_, i), sum_lower)
             IN  sweep_without_upper(A, b_, omega,
                       Put(x_, i, RAdd(At(x_, i), RMul(omega, RDiv(R_i, MatGet(A, i, i))))),
                       i + 1)

\* one pass of "for i in range(n)": x[i] = x[i] + omega * (R_i / A[i][i]) with
\* R_i = b[i] - sum_lower - sum_upper computed from the entries of x as they
\* are when row i is reached
RECURSIVE sweep(_, _, _, _, _)
sweep(A, b_, omega, x_, i) ==
    LET n == Len(b_)
    IN  IF i >= n THEN Returned(x_)
        ELSE IF RLt(RAbs(MatGet(A, i, i)), SOR_EPS)
        THEN Raised("ValueError", MSG_SOR_DIAGONAL)
        ELSE LET sum_lower == SumRange(0, i, LAMBDA j : RMul(MatGet(A, i, j), At(x_, j)))
                 sum_upper == SumRange(i, n, LAMBDA j : RMul(MatGet(A, i, j), At(x_, j)))
                 R_i == RSub(RSub(At(b_, i), sum_lower), sum_upper)
             IN  sweep(A, b_, omega,
                       Put(x_, i, RAdd(At(x_, i), RMul(omega, RDiv(R_i, MatGet(A, i, i))))),
                       i + 1)

\* max(abs(u[i] - v[i]) for i in range(n))
RECURSIVE max_difference(_, _, _)
max_difference(u, v, n) ==
    LET d == RAbs(RSub(At(u, n - 1), At(v, n - 1)))
    IN  IF n = 1 THEN d
        ELSE LET m == max_difference(u, v, n - 1)
             IN  IF RLt(RSub(m, d), RZero) THEN d ELSE m

-----------------------------------------------------------------------------
(* Inputs *)

MaxPoints == 3

\* x-coordinates: neighbours on this grid are closer than BP_TOLERANCE, steps of
\* 1 and 2 differ by less than EQ_TOLERANCE, steps of 1 and 3 by more
XValues == {RInt(0), RInt(1), RInt(2), RInt(4)}

YValues == {RInt(0), RInt(1)}

PointLists == UNION {[1..n -> XValues \X YValues] : n \in 0..MaxPoints}

EvalInputs ==
    {NoneValue, ListValue(<<>>), ListValue(<<RInt(3)>>),
     ListValue(<<Rat(1, 2), RInt(3)>>), FloatValue(RInt(3)), FloatValue(RZero)}

\* no Newton helper is called and the pipeline is not running
NoAgent ==
    /\ arg_method = ""
    /\ arg_x0_index = 0
    /\ agent_state = <<>>
    /\ agent_steps = 0
    /\ agent_results = <<>>
    /\ env_graphing = <<>>

\* no linear system and no node list is passed
NoSystem ==
    /\ arg_A = <<>>
    /\ arg_b = <<>>
    /\ arg_pivot_strategy = ""
    /\ arg_omega = RZero
    /\ arg_max_iterations = 0
    /\ arg_x = <<>>
    /\ arg_f = <<>>
    /\ loc_x = <<>>
    /\ loc_x_previous = <<>>
    /\ loc_iteration = 0

-----------------------------------------------------------------------------
(* One call of a builder on caller-supplied arguments *)

Init ==
    /\ pc = "ready"
    /\ points \in PointLists
    /\ x_evals \in EvalInputs
    /\ dy_values = <<>>
    /\ method = ""
    /\ response = NoResponse
    /\ outcome = Returned(<<>>)
    /\ NoSystem
    /\ NoAgent

Call(name, result) ==
    /\ pc = "ready"
    /\ pc' = "done"
    /\ method' = name
    /\ response' = result
    /\ UNCHANGED <<points, x_evals, dy_values, outcome>>
    /\ UNCHANGED other_vars
    /\ UNCHANGED solver_vars

DirectInterpolation == Call("direct", direct_interpolation(points, x_evals))

LagrangeInterpolation == Call("lagrange", lagrange_interpolation(points, x_evals))

NewtonForwardInterpolation ==
    Call("newton_forward", newton_forward_interpolation(points, x_evals))

NewtonBackwardInterpolation ==
    Call("newton_backward", newton_backward_interpolation(points, x_evals))

HermiteInterpolation == Call("hermite", hermite_interpolation(points, x_evals))

\* a direct call of a helper of utils/ on caller-supplied arguments
CallUtil(name, result) ==
    /\ pc = "ready"
    /\ pc' = "done"
    /\ method' = name
    /\ outcome' = result
    /\ UNCHANGED <<points, x_evals, dy_values, response>>
    /\ UNCHANGED other_vars
    /\ UNCHANGED solver_vars

\* validate_equidistant(x_values) on the x-coordinates in the caller's order
ValidateEquidistant ==
    CallUtil("validate_equidistant", validate_equidistant(XsOf(points), EQ_TOLERANCE))

\* get_lagrange_coefficients(points); a division by zero inside it raises
GetLagrangeCoefficients ==
    CallUtil("get_lagrange_coefficients",
             LET coefficients == get_lagrange_coefficients(points)
             IN  IF HasNaR(coefficients)
                 THEN Raised("ZeroDivisionError", MSG_ZERO_DIVISION)
                 ELSE Returned(coefficients))

Next ==
    \/ DirectInterpolation
    \/ LagrangeInterpolation
    \/ NewtonForwardInterpolation
    \/ NewtonBackwardInterpolation
    \/ HermiteInterpolation
    \/ ValidateEquidistant
    \/ GetLagrangeCoefficients

Spec == Init /\ [][Next]_vars

TypeOK == pc \in {"ready", "sweeping", "done"}

-----------------------------------------------------------------------------
(* One call of get_hermite_coefficients on caller-supplied nodes, values and
   derivatives *)

\* nodes: neighbours on this grid are closer than HERMITE_EPS
HermiteNodes == {RInt(0), Rat(1, 4), Rat(1, 2), RInt(1)}

DyValues == {RInt(-1), RInt(1)}

HermitePointLists == UNION {[1..n -> HermiteNodes \X YValues] : n \in 0..MaxPoints}

InitUtil ==
    /\ pc = "ready"
    /\ points \in HermitePointLists
    /\ dy_values \in [1..Len(points) -> DyValues]
    /\ x_evals = NoneValue
    /\ method = ""
    /\ response = NoResponse
    /\ outcome = Returned(<<>>)
    /\ NoSystem
    /\ NoAgent

GetHermiteCoefficients ==
    CallUtil("get_hermite_coefficients",
             get_hermite_coefficients(XsOf(points), YsOf(points), dy_values))

NextUtil == GetHermiteCoefficients

SpecUtil == InitUtil /\ [][NextUtil]_vars

-----------------------------------------------------------------------------
(* The documented example of the two Newton builders *)

ScenarioPoints ==
    <<<<Rat(34, 10), Rat(294118, 1000000)>>,
      <<Rat(35, 10), Rat(285714, 1000000)>>,
      <<Rat(36, 10), Rat(277778, 1000000)>>>>

ScenarioX == Rat(344, 100)

ScenarioPointLists ==
    UNION {[1..n -> {ScenarioPoints[j] : j \in 1..Len(ScenarioPoints)}] :
              n \in 0..Len(ScenarioPoints)}

ScenarioEvalInputs ==
    {NoneValue, ListValue(<<ScenarioX>>), ListValue(<<Rat(35, 10)>>),
     ListValue(<<ScenarioX, Rat(34, 10)>>)}

InitScenario ==
    /\ pc = "ready"
    /\ points \in ScenarioPointLists
    /\ x_evals \in ScenarioEvalInputs
    /\ dy_values = <<>>
    /\ method = ""
    /\ response = NoResponse
    /\ outcome = Returned(<<>>)
    /\ NoSystem
    /\ NoAgent

NextScenario ==
    \/ NewtonForwardInterpolation
    \/ NewtonBackwardInterpolation

SpecScenario == InitScenario /\ [][NextScenario]_vars

-----------------------------------------------------------------------------
(* One call of a direct linear solver on a caller-supplied square system *)

MaxDim == 2

\* entries: 1/4 is nonzero and below the pivot tolerances, 1 and 2 are above
DiagonalEntries == {RZero, Rat(1, 4), ROne, RInt(2)}

OffDiagonalEntries == {RZero, Rat(1, 4), ROne, RInt(-2)}

ConstantEntries == {ROne, RInt(2)}

\* the n x n matrix with diagonal d, u above the diagonal and l below it
BandMatrix(n, d, u, l) ==
    List([i \in 1..n |->
        List([j \in 1..n |-> IF i = j THEN d[i] ELSE IF i < j THEN u ELSE l])])

SquareMatrices(n) ==
    {BandMatrix(n, d, u, l) :
        d \in [1..n -> DiagonalEntries], u \in OffDiagonalEntries, l \in OffDiagonalEntries}

Vectors(n, entries) == {List(v) : v \in [1..n -> entries]}

PivotStrategies == {"scaled", "absolute"}

NoInterpolation ==
    /\ points = <<>>
    /\ x_evals = NoneValue
    /\ dy_values = <<>>
    /\ response = NoResponse

InitLinear ==
    /\ pc = "ready"
    /\ method = ""
    /\ outcome = Returned(<<>>)
    /\ NoInterpolation
    /\ NoAgent
    /\ \E n \in 1..MaxDim :
           /\ arg_A \in SquareMatrices(n)
           /\ arg_b \in Vectors(n, ConstantEntries)
    /\ arg_pivot_strategy = ""
    /\ arg_omega = RZero
    /\ arg_max_iterations = 0
    /\ arg_x = <<>>
    /\ arg_f = <<>>
    /\ loc_x = <<>>
    /\ loc_x_previous = <<>>
    /\ loc_iteration = 0

\* a call of a solver: its outcome and the caller's A and b after it
CallSolver(name, result, A_after, b_after) ==
    /\ pc = "ready"
    /\ pc' = "done"
    /\ method' = name
    /\ outcome' = result
    /\ arg_A' = A_after
    /\ arg_b' = b_after
    /\ UNCHANGED <<points, x_evals, dy_values, response>>
    /\ UNCHANGED other_vars
    /\ UNCHANGED <<arg_omega, arg_max_iterations, arg_x, arg_f>>
    /\ UNCHANGED solver_locals

\* lu_decomposition(A) reads A and stores into its new lists L and U only
LuDecomposition ==
    /\ CallSolver("lu_decomposition", lu_decomposition(arg_A), arg_A, arg_b)
    /\ UNCHANGED arg_pivot_strategy

\* doolittle(A, b) stores into no list it was given
Doolittle ==
    /\ CallSolver("doolittle", doolittle(arg_A, arg_b), arg_A, arg_b)
    /\ UNCHANGED arg_pivot_strategy

\* the caller's A and b after gauss: "A = [row[:] for row in A]; b = b[:]" rebinds
\* both names to fresh lists, so the swaps and the elimination store into the
\* copies; working is what the elimination loop leaves in them
gauss_caller_lists_shared(A, b_, working) == working

gauss_caller_lists(A, b_, working) == <<A, b_>>

\* gauss(A, b, pivot_strategy) with the default tolerance
Gauss ==
    \E strategy \in PivotStrategies :
        LET upper == triangular_form(arg_A, arg_b, strategy, GAUSS_TOLERANCE)
            after == gauss_caller_lists(arg_A, arg_b,
                         IF upper.raised = "" THEN upper.value ELSE <<arg_A, arg_b>>)
        IN  /\ CallSolver("gauss", gauss(arg_A, arg_b, strategy, GAUSS_TOLERANCE),
                          after[1], after[2])
            /\ arg_pivot_strategy' = strategy

NextLinear ==
    \/ LuDecomposition
    \/ Doolittle
    \/ Gauss

SpecLinear == InitLinear /\ [][NextLinear]_vars

-----------------------------------------------------------------------------
(* One call of gauss_seidel_sor on a caller-supplied square system, sweep by
   sweep *)

MaxIterations == 3

SorDiagonalEntries == {Rat(1, 4), ROne, RInt(2)}

SorOffDiagonalEntries == {RZero, ROne, RInt(-1)}

SorConstantEntries == {ROne, RInt(4)}

SorMatrices(n) ==
    {BandMatrix(n, d, u, l) :
        d \in [1..n -> SorDiagonalEntries],
        u \in SorOffDiagonalEntries, l \in SorOffDiagonalEntries}

\* 0 and 2 are the ends of the open interval of valid factors
Omegas == {RZero, Rat(1, 2), ROne, Rat(3, 2), RInt(2)}

InitSor ==
    /\ pc = "ready"
    /\ method = ""
    /\ outcome = Returned(<<>>)
    /\ NoInterpolation
    /\ NoAgent
    /\ \E n \in 1..MaxDim :
           /\ arg_A \in SorMatrices(n)
           /\ arg_b \in Vectors(n, SorConstantEntries)
    /\ arg_pivot_strategy = ""
    /\ arg_omega = RZero
    /\ arg_max_iterations = 0
    /\ arg_x = <<>>
    /\ arg_f = <<>>
    /\ loc_x = <<>>
    /\ loc_x_previous = <<>>
    /\ loc_iteration = 0

\* gauss_seidel_sor(A, b, omega, max_iterations=...) up to the loop: the checks
\* of omega and of diagonal dominance, then the copies and the initial guess
SorCall ==
    \E om \in Omegas, mi \in 0..MaxIterations :
        /\ pc = "ready"
        /\ method' = "gauss_seidel_sor"
        /\ arg_omega' = om
        /\ arg_max_iterations' = mi
        /\ UNCHANGED <<points, x_evals, dy_values, response>>
        /\ UNCHANGED other_vars
        /\ UNCHANGED <<arg_A, arg_b, arg_pivot_strategy, arg_x, arg_f>>
        /\ IF invalid_omega(om)
           THEN /\ pc' = "done"
                /\ outcome' = Raised("ValueError", MSG_SOR_OMEGA)
                /\ UNCHANGED solver_locals
           ELSE IF ~check_diagonal_dominance(arg_A)
           THEN /\ pc' = "done"
                /\ outcome' = Raised("ValueError", MSG_SOR_DOMINANCE)
                /\ UNCHANGED solver_locals
           ELSE /\ pc' = "sweeping"
                /\ loc_x' \in get_initial_values(arg_A, arg_b)
                /\ loc_x_previous' = loc_x'
                /\ loc_iteration' = 0
                /\ UNCHANGED outcome

\* one iteration of "for iteration in range(max_iterations)"; loc_iteration is
\* the value of iteration in the sweep that runs and the number of sweeps done
SorSweep ==
    /\ pc = "sweeping"
    /\ loc_iteration < arg_max_iterations
    /\ UNCHANGED <<points, x_evals, dy_values, response, method>>
    /\ UNCHANGED other_vars
    /\ UNCHANGED solver_args
    /\ loc_x_previous' = loc_x
    /\ LET swept == sweep(arg_A, arg_b, arg_omega, loc_x, 0)
       IN  IF swept.raised # ""
           THEN /\ pc' = "done"
                /\ outcome' = swept
                /\ UNCHANGED <<loc_x, loc_iteration>>
           ELSE /\ loc_x' = swept.value
                /\ loc_iteration' = loc_iteration + 1
                /\ IF RLt(max_difference(swept.value, loc_x, Len(arg_b)), SOR_TOLERANCE)
                   THEN /\ pc' = "done"
                        /\ outcome' = Returned(<<swept.value, loc_iteration + 1>>)
                   ELSE /\ pc' = "sweeping"
                        /\ UNCHANGED outcome

\* the loop is exhausted: return x, max_iterations
SorReturn ==
    /\ pc = "sweeping"
    /\ loc_iteration >= arg_max_iterations
    /\ pc' = "done"
    /\ outcome' = Returned(<<loc_x, arg_max_iterations>>)
    /\ UNCHANGED <<points, x_evals, dy_values, response, method>>
    /\ UNCHANGED other_vars
    /\ UNCHANGED solver_args
    /\ UNCHANGED solver_locals

NextSor ==
    \/ SorCall
    \/ SorSweep
    \/ SorReturn

SpecSor == InitSor /\ [][NextSor]_vars

\* the condition under which SorSweep can take a step: the action is total
\* under it, and every step of it changes pc or loc_iteration
SorSweepEnabled == pc = "sweeping" /\ loc_iteration < arg_max_iterations

\* WF_vars(SorSweep), with ENABLED <<SorSweep>>_vars written as SorSweepEnabled
SorSweepFair == ([]<>~SorSweepEnabled) \/ ([]<><<SorSweep>>_vars)

\* a call that has started runs on: the interpreter executes the next iteration
\* of the loop, and the return after it, and never suspends them for ever
SpecSorFair == SpecSor /\ SorSweepFair /\ WF_vars(SorReturn)

-----------------------------------------------------------------------------
(* One call of a routine of the engine on the data its caller holds: a point
   list, a node list with a value list, or a linear system *)

\* a node list with a value list of the same length or one entry longer
NodeValueLists ==
    UNION {{<<XsOf(ps), YsOf(ps)>>, <<XsOf(ps), YsOf(ps) \o <<ROne>>>>} : ps \in PointLists}

FrameEvalInputs == {NoneValue, ListValue(<<RInt(3)>>)}

InitFrame ==
    /\ pc = "ready"
    /\ NoAgent
    /\ method = ""
    /\ response = NoResponse
    /\ outcome = Returned(<<>>)
    /\ dy_values = <<>>
    /\ arg_pivot_strategy = ""
    /\ arg_omega = RZero
    /\ arg_max_iterations = 0
    /\ loc_x = <<>>
    /\ loc_x_previous = <<>>
    /\ loc_iteration = 0
    /\ \/ /\ points \in PointLists
          /\ x_evals \in FrameEvalInputs
          /\ arg_x = <<>> /\ arg_f = <<>>
          /\ arg_A = <<>> /\ arg_b = <<>>
       \/ /\ \E lists \in NodeValueLists : arg_x = lists[1] /\ arg_f = lists[2]
          /\ points = <<>> /\ x_evals = NoneValue
          /\ arg_A = <<>> /\ arg_b = <<>>
       \/ /\ \E n \in 1..MaxDim :
                 /\ arg_A \in SorMatrices(n)
                 /\ arg_b \in Vectors(n, SorConstantEntries)
          /\ points = <<>> /\ x_evals = NoneValue
          /\ arg_x = <<>> /\ arg_f = <<>>

\* the caller holds a linear system
HoldsSystem == arg_A # <<>>

\* the caller's x and f after bjorck_pereyra: "x = x[:]; c = f[:]" binds fresh
\* lists, and both phases store into c only
bjorck_caller_lists_shared(x, f, c) == <<x, c>>

bjorck_caller_lists(x, f, c) == <<x, f>>

\* bjorck_pereyra(x, f) with the default tolerance; it raises before its first
\* store into c
BjorckPereyra ==
    LET solved == bjorck_pereyra(arg_x, arg_f, BP_TOLERANCE)
        after == bjorck_caller_lists(arg_x, arg_f,
                     IF solved.raised = "" THEN solved.value ELSE arg_f)
    IN  /\ pc = "ready"
        /\ ~HoldsSystem
        /\ pc' = "done"
        /\ method' = "bjorck_pereyra"
        /\ outcome' = solved
        /\ arg_x' = after[1]
        /\ arg_f' = after[2]
        /\ UNCHANGED <<points, x_evals, dy_values, response>>
        /\ UNCHANGED other_vars
        /\ UNCHANGED <<arg_A, arg_b, arg_pivot_strategy, arg_omega, arg_max_iterations>>
        /\ UNCHANGED solver_locals

\* compute_difference_table(y_values): level 0 of the table is y_values.copy(),
\* the further levels are new lists
ComputeDifferenceTable ==
    /\ ~HoldsSystem
    /\ CallUtil("compute_difference_table", Returned(compute_difference_table(arg_f)))

NextFrame ==
    \/ DirectInterpolation
    \/ LagrangeInterpolation
    \/ NewtonForwardInterpolation
    \/ NewtonBackwardInterpolation
    \/ HermiteInterpolation
    \/ BjorckPereyra
    \/ ComputeDifferenceTable
    \/ HoldsSystem /\ Doolittle
    \/ HoldsSystem /\ Gauss
    \/ HoldsSystem /\ SorCall
    \/ SorSweep
    \/ SorReturn

SpecFrame == InitFrame /\ [][NextFrame]_vars

-----------------------------------------------------------------------------
(* One call of the Vandermonde solver or of a direct linear solver on lists of
   any shape *)

ShapeEntries == {RZero, ROne, RInt(2)}

\* the matrix of r rows and c columns with d on the diagonal and o elsewhere
RectangularMatrix(r, c, d, o) ==
    List([i \in 1..r |-> List([j \in 1..c |-> IF i = j THEN d ELSE o])])

RectangularMatrices ==
    {RectangularMatrix(r, c, d, o) :
        r \in 1..MaxDim, c \in 1..MaxDim, d \in ShapeEntries, o \in ShapeEntries}

ShapeVectors == UNION {Vectors(n, ConstantEntries) : n \in 1..MaxDim}

\* node lists and value lists of up to MaxDim entries, of equal or different length
ShapeNodeLists == UNION {[1..n -> {RInt(0), RInt(2), RInt(4)}] : n \in 0..MaxDim}

ShapeValueLists == UNION {[1..n -> YValues] : n \in 0..MaxDim}

InitShape ==
    /\ pc = "ready"
    /\ method = ""
    /\ outcome = Returned(<<>>)
    /\ NoInterpolation
    /\ NoAgent
    /\ arg_pivot_strategy = ""
    /\ arg_omega = RZero
    /\ arg_max_iterations = 0
    /\ loc_x = <<>>
    /\ loc_x_previous = <<>>
    /\ loc_iteration = 0
    /\ \/ /\ arg_x \in ShapeNodeLists
          /\ arg_f \in ShapeValueLists
          /\ arg_A = <<>> /\ arg_b = <<>>
       \/ /\ arg_A \in RectangularMatrices
          /\ arg_b \in ShapeVectors
          /\ arg_x = <<>> /\ arg_f = <<>>

NextShape ==
    \/ BjorckPereyra
    \/ HoldsSystem /\ LuDecomposition
    \/ HoldsSystem /\ Doolittle
    \/ HoldsSystem /\ Gauss

SpecShape == InitShape /\ [][NextShape]_vars

-----------------------------------------------------------------------------
(* One call of a helper of the Newton tools on a sorted node list, its values,
   an evaluation point, a method tag and an anchor index *)

HelperNodes == {RInt(0), RInt(1), RInt(2), RInt(3)}

\* the node lists of 0 to MaxPoints entries in ascending order
SortedNodeLists ==
    {xs \in UNION {[1..n -> HelperNodes] : n \in 0..MaxPoints} :
        \A i \in 1..(Len(xs) - 1) : RLe(xs[i], xs[i + 1])}

\* evaluation points before, at, between and after the nodes
HelperEvals == {RInt(-1), RInt(0), Rat(1, 2), ROne, Rat(3, 2), RInt(3), RInt(4)}

MethodTags == {"forward", "backward", "central"}

InitHelper ==
    /\ pc = "ready"
    /\ method = ""
    /\ response = NoResponse
    /\ outcome = Returned(<<>>)
    /\ points = <<>>
    /\ dy_values = <<>>
    /\ NoAgent
    /\ arg_A = <<>> /\ arg_b = <<>>
    /\ arg_pivot_strategy = ""
    /\ arg_omega = RZero
    /\ arg_max_iterations = 0
    /\ loc_x = <<>>
    /\ loc_x_previous = <<>>
    /\ loc_iteration = 0
    /\ arg_x \in SortedNodeLists
    /\ arg_f \in [1..Len(arg_x) -> YValues]
    /\ \E x_eval \in HelperEvals : x_evals = FloatValue(x_eval)

\* a call of a helper with a method tag and an anchor index
CallHelper(name, result, tag, index) ==
    /\ pc = "ready"
    /\ pc' = "done"
    /\ method' = name
    /\ outcome' = result
    /\ arg_method' = tag
    /\ arg_x0_index' = index
    /\ UNCHANGED <<points, x_evals, dy_values, response>>
    /\ UNCHANGED solver_vars
    /\ UNCHANGED agent_vars

SelectOptimalX0Index ==
    \E tag \in MethodTags :
        CallHelper("select_optimal_x0_index",
                   select_optimal_x0_index(arg_x, x_evals.v[1], tag), tag, 0)

\* all steps of xs are equal and positive: what validate_equidistant and the
\* duplicate check of the callers let through, without the tolerance
Equidistant(xs) ==
    /\ Len(xs) >= 2
    /\ RLt(xs[1], xs[2])
    /\ \A i \in 1..(Len(xs) - 1) : RSub(xs[i + 1], xs[i]) = RSub(xs[2], xs[1])

\* get_newton_forward_coefficients(y_values, x_values, x0_index, h) with h the
\* step of x_values
GetNewtonForwardCoefficients ==
    \E index \in 0..(Len(arg_x) - 1) :
        /\ Equidistant(arg_x)
        /\ CallHelper("get_newton_forward_coefficients",
                      Returned(get_newton_forward_coefficients(
                                   arg_f, arg_x, index, RSub(arg_x[2], arg_x[1]))),
                      "", index)

GetNewtonBackwardCoefficients ==
    \E index \in 0..(Len(arg_x) - 1) :
        /\ Equidistant(arg_x)
        /\ CallHelper("get_newton_backward_coefficients",
                      Returned(get_newton_backward_coefficients(
                                   arg_f, arg_x, index, RSub(arg_x[2], arg_x[1]))),
                      "", index)

NextHelper ==
    \/ SelectOptimalX0Index
    \/ GetNewtonForwardCoefficients
    \/ GetNewtonBackwardCoefficients

SpecHelper == InitHelper /\ [][NextHelper]_vars

-----------------------------------------------------------------------------
(* agent/pipeline.py: process_request, the extraction graph parse_input ->
   review_input and the execution loop.  The language model and the graphing
   step are the environment: the model chooses their outcomes freely. *)

StrValue(text) == [kind |-> "str", v |-> text]

\* None where a str is expected
NoneText == [kind |-> "None", v |-> ""]

\* Python truth value of a str | None
TruthyText(t) == t.kind = "str" /\ t.v # ""

TEXT_NO_OUTPUT == "System Error: No output received from parser."

TEXT_DEFAULT == "Ja sam interpolacijski agent. Unesite problem relevantan za interpolaciju."

TEXT_MIN_POINTS == "Morate imati najmanje 2 jedinstvene x-koordinate za interpolaciju."

TEXT_DUPLICATE == "Duplikati x-koordinata nisu dozvoljeni."

TEXT_EQUIDISTANT ==
    "Za Newtonove metode, x-koordinate moraju biti jednako udaljene (ekvidistantne)."

TEXT_INVALID ==
    "Invalid interpolation request. Please ensure your input is clear and try again."

TEXT_NO_REQUESTS == "No valid interpolation requests found."

\* a message of the conversation; content is the list of its lines
HumanMessage(content) == [type |-> "human", content |-> content]

\* REVIEW_ERROR_TEMPLATE.format(errors="; ".join(errors))
REVIEW_ERROR_TEMPLATE(errors) ==
    <<"The extraction had the following errors:", errors, "",
      "Please correct the structure and try again. Ensure all points are valid and methods are supported.">>

\* the limit a graph has when none is configured
RecursionLimit_default == 5 * 5

\* config={"recursion_limit": 12}
RecursionLimit == 12

\* x_sorted = sorted(x_vals); all(abs(d - diffs[0]) < 1e-9 for d in diffs)
review_equidistant(x_vals) ==
    LET diffs == steps_of(SortSeq(x_vals, LAMBDA a, b : RLt(a, b)))
    IN  \A i \in 1..Len(diffs) : RLt(RAbs(RSub(diffs[i], diffs[1])), EQ_TOLERANCE)

\* a review without the spacing check of the Newton methods
review_request_any_spacing(req, method_) ==
    IF Len(req.points) < 2 THEN TEXT_MIN_POINTS
    ELSE IF HasEqualPair(XsOf(req.points)) THEN TEXT_DUPLICATE
    ELSE ""

\* the text with which the loop of review_input_node cancels on req, "" if
\* req passes its checks
review_request(req, method_) ==
    IF Len(req.points) < 2 THEN TEXT_MIN_POINTS
    ELSE IF HasEqualPair(XsOf(req.points)) THEN TEXT_DUPLICATE
    ELSE IF /\ method_ \in {"newton_forward", "newton_backward"}
            /\ ~review_equidistant(XsOf(req.points))
    THEN TEXT_EQUIDISTANT
    ELSE ""

\* the first request of the batch that does not pass, 0 if all pass
first_rejected(requests, method_) ==
    LET rejected == {i \in 1..Len(requests) : review_request(requests[i], method_) # ""}
    IN  IF rejected = {} THEN 0 ELSE CHOOSE i \in rejected : \A k \in rejected : i <= k

\* a review that answers a rejected request with valid = False and a feedback
\* message, so that the router goes back to parse_input
review_input_node_retry(state) ==
    LET output == state.parsed_output
        requests == output.v.requests
        i == first_rejected(requests, state.method)
    IN  IF output.kind = "None"
        THEN [state EXCEPT !.valid = FALSE, !.messages = Append(@, HumanMessage(<<TEXT_NO_OUTPUT>>))]
        ELSE IF ~output.v.is_interpolation_request
        THEN [state EXCEPT !.valid = TRUE, !.clean_requests = <<>>,
                           !.final_response_text =
                               IF TruthyText(output.v.clarification_message)
                               THEN output.v.clarification_message
                               ELSE StrValue(TEXT_DEFAULT)]
        ELSE IF i # 0
        THEN [state EXCEPT !.valid = FALSE,
                           !.messages = Append(@, HumanMessage(REVIEW_ERROR_TEMPLATE(
                                                      review_request(requests[i], state.method))))]
        ELSE [state EXCEPT !.valid = TRUE, !.clean_requests = requests]

\* review_input_node(state), merged into the state: the key messages is
\* appended to, every other returned key replaces the old value.  The list
\* errors stays empty, so the branch "if errors:" is never taken.
review_input_node(state) ==
    LET output == state.parsed_output
        requests == output.v.requests
        i == first_rejected(requests, state.method)
    IN  IF output.kind = "None"
        THEN [state EXCEPT !.valid = FALSE, !.messages = Append(@, HumanMessage(<<TEXT_NO_OUTPUT>>))]
        ELSE IF ~output.v.is_interpolation_request
        THEN [state EXCEPT !.valid = TRUE, !.clean_requests = <<>>,
                           !.final_response_text =
                               IF TruthyText(output.v.clarification_message)
                               THEN output.v.clarification_message
                               ELSE StrValue(TEXT_DEFAULT)]
        ELSE IF i # 0
        THEN [state EXCEPT !.valid = TRUE, !.clean_requests = <<>>,
                           !.final_response_text =
                               StrValue(review_request(requests[i], state.method))]
        ELSE [state EXCEPT !.valid = TRUE, !.clean_requests = requests]

\* the routing of the execution loop to a math function of backend/src
interpolate(method_, req) ==
    IF method_ = "lagrange" THEN lagrange_interpolation(req.points, req.x_evals)
    ELSE IF method_ = "newton_forward"
    THEN newton_forward_interpolation(req.points, req.x_evals)
    ELSE IF method_ = "newton_backward"
    THEN newton_backward_interpolation(req.points, req.x_evals)
    ELSE IF method_ = "direct" THEN direct_interpolation(req.points, req.x_evals)
    ELSE IF method_ = "hermite" THEN hermite_interpolation(req.points, req.x_evals)
    ELSE lagrange_interpolation(req.points, req.x_evals)

\* list(zip(req.x_evals, raw_results)) if both are non-empty, else None
formatted_results(req, raw_results) ==
    IF Truthy(raw_results) /\ Truthy(req.x_evals)
    THEN ListValue(List([j \in 1..IMin(Len(req.x_evals.v), Len(raw_results.v)) |->
                            <<req.x_evals.v[j], raw_results.v[j]>>]))
    ELSE NoneValue

\* InterpolationResponseWithMetadata(**response_dict, points=..., method=..., ...)
final_obj(req, method_, response_dict) ==
    [results |-> response_dict.results,
     coefficients |-> response_dict.coefficients,
     polynomial_degree |-> response_dict.polynomial_degree,
     points |-> req.points,
     method |-> method_,
     formatted_results |-> formatted_results(req, response_dict.results)]

\* a loop that leaves at the first request that raises
RECURSIVE execution_loop_aborting(_, _, _, _, _)
execution_loop_aborting(requests, method_, graphing, i, results) ==
    IF i > Len(requests) THEN results
    ELSE IF ~graphing[i] THEN results
    ELSE LET response_dict == interpolate(method_, requests[i])
         IN  IF response_dict.raised # "" THEN results
             ELSE execution_loop_aborting(
                      requests, method_, graphing, i + 1,
                      Append(results, final_obj(requests[i], method_, response_dict)))

\* for req in requests: try: ... results.append(final_obj)
\*                      except Exception: continue
\* graphing[i] tells whether the steps after the math function complete for
\* the request at index i
RECURSIVE execution_loop(_, _, _, _, _)
execution_loop(requests, method_, graphing, i, results) ==
    IF i > Len(requests) THEN results
    ELSE IF ~graphing[i]
    THEN execution_loop(requests, method_, graphing, i + 1, results)
    ELSE LET response_dict == interpolate(method_, requests[i])
         IN  IF response_dict.raised # ""
             THEN execution_loop(requests, method_, graphing, i + 1, results)
             ELSE execution_loop(
                      requests, method_, graphing, i + 1,
                      Append(results, final_obj(requests[i], method_, response_dict)))

-----------------------------------------------------------------------------
(* One call of process_request *)

Methods == {"lagrange", "newton_forward", "newton_backward", "direct", "hermite", "spline"}

MaxRequests == 2

MaxRequestPoints == 3

\* the points of a request: x from the grid, y alternating
RequestPoints(xs) == List([i \in 1..Len(xs) |-> <<xs[i], IF i % 2 = 0 THEN ROne ELSE RZero>>])

\* x-values of a request: every list of up to two nodes, and of the longer
\* lists the ascending ones and the ones that start at their largest node
RequestNodeLists ==
    UNION {[1..n -> XValues] : n \in 0..IMin(2, MaxRequestPoints)}
    \cup {xs \in [1..MaxRequestPoints -> XValues] :
            \/ \A i \in 1..(MaxRequestPoints - 1) : RLt(xs[i], xs[i + 1])
            \/ /\ RLt(xs[MaxRequestPoints], xs[1])
               /\ \A i \in 2..(MaxRequestPoints - 1) : RLt(xs[i], xs[i + 1])}

\* what the language model can extract as one request
Requests ==
    {[points |-> RequestPoints(xs),
      x_evals |-> IF Len(xs) = 2 THEN NoneValue ELSE ListValue(<<RInt(3)>>)] :
        xs \in RequestNodeLists}

RequestList(is_interpolation_request, clarification_message, requests) ==
    [kind |-> "RequestList",
     v |-> [is_interpolation_request |-> is_interpolation_request,
            clarification_message |-> clarification_message,
            requests |-> requests]]

\* None where an InterpolationRequestList is expected
NoOutput ==
    [kind |-> "None",
     v |-> [is_interpolation_request |-> FALSE,
            clarification_message |-> NoneText,
            requests |-> <<>>]]

\* the values of parsed_output after parse_input_node: None when the model
\* call raised, otherwise an InterpolationRequestList
ParsedOutputs ==
    {NoOutput}
    \cup {RequestList(FALSE, m, <<>>) : m \in {NoneText, StrValue(""), StrValue("clarify")}}
    \cup {RequestList(TRUE, NoneText, requests) :
            requests \in UNION {[1..n -> Requests] : n \in 0..MaxRequests}}

InitAgent ==
    /\ pc = "ready"
    /\ method = ""
    /\ response = NoResponse
    /\ outcome = Returned(<<>>)
    /\ points = <<>>
    /\ x_evals = NoneValue
    /\ dy_values = <<>>
    /\ NoSystem
    /\ arg_method \in Methods
    /\ arg_x0_index = 0
    /\ agent_state = <<>>
    /\ agent_steps = 0
    /\ agent_results = <<>>
    /\ env_graphing = <<>>

AgentFrame == UNCHANGED <<points, x_evals, dy_values, response, arg_method, arg_x0_index>>
                  /\ UNCHANGED solver_vars

\* process_request up to graph.invoke(initial_state, ...)
ProcessRequest ==
    /\ pc = "ready"
    /\ pc' = "parse_input"
    /\ method' = "process_request"
    /\ agent_state' = [messages |-> <<HumanMessage(<<"user_input">>)>>,
                       parsed_output |-> NoOutput,
                       clean_requests |-> <<>>,
                       valid |-> FALSE,
                       final_response_text |-> NoneText,
                       method |-> arg_method]
    /\ UNCHANGED <<agent_steps, agent_results, env_graphing, outcome>>
    /\ AgentFrame

\* one graph step: parse_input_node
ParseInput ==
    /\ pc = "parse_input"
    /\ agent_steps < RecursionLimit
    /\ \E parsed \in ParsedOutputs :
           agent_state' = [agent_state EXCEPT !.parsed_output = parsed]
    /\ agent_steps' = agent_steps + 1
    /\ pc' = "review_input"
    /\ UNCHANGED <<method, agent_results, env_graphing, outcome>>
    /\ AgentFrame

\* one graph step: review_input_node and the router of its conditional edge
ReviewInput ==
    /\ pc = "review_input"
    /\ agent_steps < RecursionLimit
    /\ agent_state' = review_input_node(agent_state)
    /\ agent_steps' = agent_steps + 1
    /\ pc' = IF agent_state'.valid THEN "END" ELSE "parse_input"
    /\ UNCHANGED <<method, agent_results, env_graphing, outcome>>
    /\ AgentFrame

\* graph.invoke raises GraphRecursionError when a node is due after
\* recursion_limit steps; process_request catches it
RecursionLimitReached ==
    /\ pc \in {"parse_input", "review_input"}
    /\ agent_steps >= RecursionLimit
    /\ pc' = "done"
    /\ outcome' = Returned(StrValue(TEXT_INVALID))
    /\ UNCHANGED <<method, agent_state, agent_steps, agent_results, env_graphing>>
    /\ AgentFrame

\* process_request after graph.invoke has returned final_state
Execute ==
    /\ pc = "END"
    /\ pc' = "done"
    /\ \E graphing \in [1..Len(agent_state.clean_requests) -> BOOLEAN] :
           /\ env_graphing' = graphing
           /\ IF TruthyText(agent_state.final_response_text)
              THEN /\ outcome' = Returned(agent_state.final_response_text)
                   /\ agent_results' = agent_results
              ELSE IF agent_state.clean_requests = <<>>
              THEN /\ outcome' = Returned(StrValue(TEXT_NO_REQUESTS))
                   /\ agent_results' = agent_results
              ELSE LET results == execution_loop(agent_state.clean_requests,
                                                 arg_method, graphing, 1, <<>>)
                   IN  /\ agent_results' = results
                       /\ outcome' = Returned(ListValue(results))
    /\ UNCHANGED <<method, agent_state, agent_steps>>
    /\ AgentFrame

NextAgent ==
    \/ ProcessRequest
    \/ ParseInput
    \/ ReviewInput
    \/ RecursionLimitReached
    \/ Execute

SpecAgent == InitAgent /\ [][NextAgent]_vars

\* a node of the graph is due, or the code after graph.invoke
AgentStepEnabled ==
    \/ pc \in {"parse_input", "review_input"} /\ agent_steps < RecursionLimit
    \/ pc = "END"

\* weak fairness of the steps ParseInput, ReviewInput and Execute, with their
\* enabling condition written out: a call of the language model returns or
\* raises, and the interpreter goes on
AgentStepFair ==
    \/ []<>(~AgentStepEnabled)
    \/ []<><<ParseInput \/ ReviewInput \/ Execute>>_vars

SpecAgentFair ==
    /\ SpecAgent
    /\ WF_vars(ProcessRequest)
    /\ WF_vars(RecursionLimitReached)
    /\ AgentStepFair

-----------------------------------------------------------------------------
(* Vocabulary of the properties *)

BuilderMethods == {"direct", "lagrange", "newton_forward", "newton_backward"}

NewtonMethods == {"newton_forward", "newton_backward"}

AllMethods == BuilderMethods \cup {"hermite"}

InsufficientMessages ==
    {"At least 2 points required for polynomial interpolation.",
     "At least 2 points required for Newton forward interpolation.",
     "At least 2 points required for Newton backward interpolation.",
     "At least 2 points required for Hermite interpolation."}

DuplicateMessages ==
    {MSG_DUPLICATE, "ERROR: Duplicate nodes detected!",
     "ERROR: Near-duplicate nodes detected in Phase 1!"}

SameX(ps) == \E i, j \in 1..Len(ps) : i # j /\ ps[i][1] = ps[j][1]

Closer(ps, tol) ==
    \E i, j \in 1..Len(ps) : i # j /\ RLt(RAbs(RSub(ps[i][1], ps[j][1])), tol)

Step(xs, i) == RSub(xs[i + 1], xs[i])

Deviates(xs, tol) ==
    \E i \in 1..(Len(xs) - 1) : RLt(tol, RAbs(RSub(Step(xs, i), Step(xs, 1))))

EvenlySpaced(xs) == \A i \in 1..(Len(xs) - 1) : Step(xs, i) = Step(xs, 1)

SortedXs == XsOf(SortedByX(points))

Interpolates(coeffs, ps) ==
    \A i \in 1..Len(ps) : evaluate_polynomial(coeffs, ps[i][1]) = ps[i][2]

Derivative(coeffs) == List([j \in 1..(Len(coeffs) - 1) |-> RMul(RInt(j), coeffs[j + 1])])

Near(a, b) == RLe(RAbs(RSub(a, b)), Rat(1, 1000000))

BuilderDone == pc = "done" /\ method \in AllMethods

RejectedAsDuplicate ==
    response.raised = "ValueError" /\ response.msg \in DuplicateMessages

\* the preconditions of the called method: at least 2 points, pairwise distinct
\* x, and for the Newton methods equal steps between the sorted x
MeetsPreconditions ==
    /\ Len(points) >= 2
    /\ ~SameX(points)
    /\ method \in NewtonMethods => EvenlySpaced(SortedXs)

-----------------------------------------------------------------------------
(* Properties *)

C3_HermiteConditions ==
    (pc = "done" /\ method = "get_hermite_coefficients" /\ Len(points) >= 2
        /\ ~SameX(points)) =>
        /\ outcome.raised = ""
        /\ Interpolates(outcome.value, points)
        /\ \A i \in 1..Len(points) :
               evaluate_polynomial(Derivative(outcome.value), points[i][1]) = dy_values[i]

C5_ResultsPerEvaluation ==
    (BuilderDone /\ method \in BuilderMethods /\ x_evals.kind \in {"None", "list"}
        /\ response.raised # "ValueError") =>
        /\ response.raised = ""
        /\ response.coefficients # <<>>
        /\ x_evals.v = <<>> => response.results = NoneValue
        /\ x_evals.v # <<>> =>
               response.results = ListValue(evaluate_all(response.coefficients, x_evals.v))

\* C6: every method refuses a point set of fewer than 2 points with the
\* "at least 2 points" ValueError, whatever else is wrong with the call.
C6_InsufficientPoints ==
    (BuilderDone /\ Len(points) < 2) =>
        /\ response.raised = "ValueError"
        /\ response.msg \in InsufficientMessages
        /\ response.coefficients = <<>>

C6_Witness ==
    /\ BuilderDone
    /\ method = "lagrange"
    /\ Len(points) = 1
    /\ x_evals.kind = "list"
    /\ response.raised = "ValueError"

\* C7: every method refuses a point set in which two points have the same x
\* with the duplicate ValueError, wherever the two points stand in the input and
\* whatever their y.
C7_DuplicateNodes ==
    (BuilderDone /\ Len(points) >= 2 /\ SameX(points)) =>
        /\ RejectedAsDuplicate
        /\ response.coefficients = <<>>

C7_Witness ==
    /\ BuilderDone
    /\ method = "newton_backward"
    /\ Len(points) = 3
    /\ points[1][1] = points[3][1]
    /\ points[1][2] # points[3][2]
    /\ points[2][1] # points[1][1]
    /\ RejectedAsDuplicate

\* C8 as stated: in every method, a point set with two x closer than the
\* tolerance is refused with the duplicate ValueError and no coefficients.
C8_ToleranceInEveryMethod ==
    (BuilderDone /\ Len(points) >= 2 /\ Closer(points, BP_TOLERANCE)) =>
        /\ RejectedAsDuplicate
        /\ response.coefficients = <<>>

\* C8 amended: duplicate detection is tolerance based in direct_interpolation
\* only, where two x closer than the solver's tolerance are refused with the
\* duplicate ValueError and no coefficients; Lagrange, Newton forward, Newton
\* backward and Hermite refuse as duplicates exactly the sets with two equal x.
C8_ToleranceOnlyInDirect ==
    (BuilderDone /\ Len(points) >= 2) =>
        /\ (method = "direct" /\ Closer(points, BP_TOLERANCE)) =>
               (RejectedAsDuplicate /\ response.coefficients = <<>>)
        /\ method # "direct" => (RejectedAsDuplicate <=> SameX(points))

C8_Witness ==
    /\ BuilderDone
    /\ method = "newton_forward"
    /\ Len(points) = 3
    /\ Closer(points, BP_TOLERANCE)
    /\ ~SameX(points)
    /\ response.raised = ""
    /\ response.coefficients # <<>>

\* C9: validate_equidistant raises the equidistance ValueError exactly when some
\* consecutive step differs from the first step by more than the tolerance, and
\* otherwise returns the first step; the two Newton builders return no
\* polynomial for a point set whose sorted x have such a step.
C9_EquidistantValidation ==
    /\ (pc = "done" /\ method = "validate_equidistant" /\ Len(points) >= 2) =>
           IF Deviates(XsOf(points), EQ_TOLERANCE)
           THEN outcome.raised = "ValueError" /\ outcome.msg = MSG_EQUIDISTANT
           ELSE outcome.raised = "" /\ outcome.value = Step(XsOf(points), 1)
    /\ (BuilderDone /\ method \in NewtonMethods /\ Len(points) >= 2
           /\ Deviates(SortedXs, EQ_TOLERANCE)) =>
           /\ response.raised = "ValueError"
           /\ response.coefficients = <<>>
           /\ ~SameX(points) => response.msg = MSG_EQUIDISTANT

C9_Witness ==
    /\ pc = "done"
    /\ method = "validate_equidistant"
    /\ Len(points) = 3
    /\ Step(XsOf(points), 1) = RInt(1)
    /\ outcome.raised = "ValueError"
    /\ outcome.msg = MSG_EQUIDISTANT

\* C10: for the points (3.4, 0.294118), (3.5, 0.285714), (3.6, 0.277778)
\* evaluated at 3.44, Newton forward returns 0.290756 and Newton backward
\* returns 0.290695, each to the six decimals given.
C10_DocumentedValues ==
    (pc = "done" /\ points = ScenarioPoints /\ x_evals = ListValue(<<ScenarioX>>)) =>
        /\ response.raised = ""
        /\ method = "newton_forward" =>
               Near(response.results.v[1], Rat(290756, 1000000))
        /\ method = "newton_backward" =>
               Near(response.results.v[1], Rat(290695, 1000000))

-----------------------------------------------------------------------------
(* Vocabulary of the properties of the linear solvers *)

\* the product of two n x n matrices
MatMul(M, N) ==
    List([i \in 1..Len(M) |->
        List([j \in 1..Len(M) |->
            SumList(List([k \in 1..Len(M) |-> RMul(M[i][k], N[k][j])]))])])

\* the product of a matrix and a vector
MatVec(M, v) ==
    List([i \in 1..Len(M) |-> SumList(List([k \in 1..Len(v) |-> RMul(M[i][k], v[k])]))])

UnitLowerTriangular(M) ==
    \A i, j \in 1..Len(M) :
        /\ i = j => M[i][j] = ROne
        /\ i < j => M[i][j] = RZero

UpperTriangular(M) == \A i, j \in 1..Len(M) : i > j => M[i][j] = RZero

SolverDone(name) == pc = "done" /\ method = name

SolverReturned(name) == SolverDone(name) /\ outcome.raised = ""

-----------------------------------------------------------------------------
(* Properties of the linear solvers *)

\* C11: whenever lu_decomposition returns (L, U) for a square matrix A, L is
\* lower triangular with ones on its diagonal, U is upper triangular, and the
\* product L U equals A entry by entry.
C11_LUFactorisation ==
    SolverReturned("lu_decomposition") =>
        LET L == outcome.value[1]
            U == outcome.value[2]
        IN  /\ Len(L) = Len(arg_A)
            /\ Len(U) = Len(arg_A)
            /\ UnitLowerTriangular(L)
            /\ UpperTriangular(U)
            /\ MatMul(L, U) = arg_A

C11_Witness ==
    /\ SolverReturned("lu_decomposition")
    /\ Len(arg_A) = 2
    /\ outcome.value[1][2][1] = Rat(-2, 1)
    /\ outcome.value[2][1][2] = Rat(1, 4)
    /\ outcome.value[2][2][2] = Rat(5, 2)

\* a pivot the Doolittle routines refuse to divide by
SmallPivot(U, i) == RLt(RAbs(U[i][i]), LU_EPS)

\* C12 as stated: no (L, U) returned by lu_decomposition and no (x, L, U)
\* returned by doolittle has a pivot U[i][i] of magnitude below 1e-10 at any
\* index i, the last one included.
C12_NoSmallPivotReturned ==
    /\ SolverReturned("lu_decomposition") =>
           \A i \in 1..Len(arg_A) : ~SmallPivot(outcome.value[2], i)
    /\ SolverReturned("doolittle") =>
           \A i \in 1..Len(arg_A) : ~SmallPivot(outcome.value[3], i)

\* C12 amended: lu_decomposition raises its ValueError for a pivot below 1e-10
\* at every index but the last, so the (L, U) it returns has no such pivot
\* before the last one; a last pivot below 1e-10 is returned in U and refused
\* by backward_substitution, so doolittle raises for it and every (x, L, U)
\* it returns has all pivots at or above 1e-10.
C12_SmallPivotRefusedWhereDivided ==
    /\ SolverReturned("lu_decomposition") =>
           \A i \in 1..(Len(arg_A) - 1) : ~SmallPivot(outcome.value[2], i)
    /\ (SolverDone("lu_decomposition") /\ outcome.raised # "") =>
           (outcome.raised = "ValueError" /\ outcome.msg = MSG_LU_PIVOT)
    /\ SolverReturned("doolittle") =>
           \A i \in 1..Len(arg_A) : ~SmallPivot(outcome.value[3], i)
    /\ SolverDone("doolittle") =>
           LET lu == lu_decomposition(arg_A)
           IN  /\ lu.raised # "" => outcome = lu
               /\ (lu.raised = "" /\ \E i \in 1..Len(arg_A) : SmallPivot(lu.value[2], i)) =>
                      (outcome.raised = "ValueError" /\ outcome.msg = MSG_LU_DIAGONAL)

C12_Witness ==
    /\ SolverDone("doolittle")
    /\ Len(arg_A) = 2
    /\ lu_decomposition(arg_A).raised = ""
    /\ lu_decomposition(arg_A).value[2][2][2] = Rat(1, 4)
    /\ lu_decomposition(arg_A).value[1][2][1] # RZero
    /\ outcome.raised = "ValueError"
    /\ outcome.msg = MSG_LU_DIAGONAL

\* C13: on the same system (A, b) the solution returned by doolittle equals the
\* solution returned by gauss under "scaled" and under "absolute", and every
\* solution x returned by doolittle or gauss satisfies A x = b.
C13_SolversAgree ==
    /\ SolverReturned("doolittle") =>
           /\ MatVec(arg_A, outcome.value[1]) = arg_b
           /\ \A strategy \in PivotStrategies :
                  LET g == gauss(arg_A, arg_b, strategy, GAUSS_TOLERANCE)
                  IN  g.raised = "" => g.value = outcome.value[1]
    /\ SolverReturned("gauss") =>
           /\ MatVec(arg_A, outcome.value) = arg_b
           /\ LET d == doolittle(arg_A, arg_b)
              IN  d.raised = "" => d.value[1] = outcome.value

C13_Witness ==
    /\ SolverReturned("gauss")
    /\ arg_pivot_strategy = "absolute"
    /\ Len(arg_A) = 2
    /\ arg_A[1][1] = ROne
    /\ arg_A[2][1] = RInt(-2)
    /\ arg_A[1][2] = ROne
    /\ doolittle(arg_A, arg_b).raised = ""
    /\ doolittle(arg_A, arg_b).value[1] = outcome.value
    /\ outcome.value[1] # outcome.value[2]

\* a row of A whose entries are all below the tolerance in magnitude
EffectivelyZeroRow(M, tol) ==
    \E i \in 1..Len(M) : \A j \in 1..Len(M) : RLt(RAbs(M[i][j]), tol)

\* a row of A whose entries are all 0
ZeroRow(M) == \E i \in 1..Len(M) : \A j \in 1..Len(M) : M[i][j] = RZero

GaussMessages == {MSG_GAUSS_ZERO_ROW, MSG_GAUSS_PIVOT, MSG_GAUSS_DIAGONAL}

\* every diagonal entry of the triangular form gauss divides by is at or above
\* the tolerance when gauss returns, and gauss raises nothing but its ValueErrors
PivotsGuarded ==
    /\ SolverReturned("gauss") =>
           LET upper == triangular_form(arg_A, arg_b, arg_pivot_strategy, GAUSS_TOLERANCE)
           IN  /\ upper.raised = ""
               /\ UpperTriangular(upper.value[1])
               /\ \A i \in 1..Len(arg_A) :
                      ~RLt(RAbs(upper.value[1][i][i]), GAUSS_TOLERANCE)
    /\ (SolverDone("gauss") /\ outcome.raised # "") =>
           (outcome.raised = "ValueError" /\ outcome.msg \in GaussMessages)

\* C14 as stated: under either strategy gauss fails when a pivot or a diagonal
\* entry of the back substitution is below the tolerance, and a row of zeros in
\* A is reported by the zero-row check, before the first elimination step.
C14_ZeroRowBeforeElimination ==
    /\ PivotsGuarded
    /\ (SolverDone("gauss") /\ ZeroRow(arg_A)) =>
           (outcome.raised = "ValueError" /\ outcome.msg = MSG_GAUSS_ZERO_ROW)

\* C14 amended: under either strategy gauss fails when a pivot or a diagonal
\* entry of the back substitution is below the tolerance; under "scaled" a row
\* whose entries are all below the tolerance is reported before the first
\* elimination step, and only then; under "absolute" there is no such check and
\* a row of zeros is reported by the pivot check or by the back substitution.
C14_ZeroRowCheckOnlyScaled ==
    /\ PivotsGuarded
    /\ (SolverDone("gauss") /\ arg_pivot_strategy = "scaled") =>
           (EffectivelyZeroRow(arg_A, GAUSS_TOLERANCE) <=>
                (outcome.raised = "ValueError" /\ outcome.msg = MSG_GAUSS_ZERO_ROW))
    /\ (SolverDone("gauss") /\ arg_pivot_strategy = "absolute" /\ ZeroRow(arg_A)) =>
           /\ outcome.raised = "ValueError"
           /\ outcome.msg \in {MSG_GAUSS_PIVOT, MSG_GAUSS_DIAGONAL}

C14_Witness ==
    /\ SolverDone("gauss")
    /\ arg_pivot_strategy = "absolute"
    /\ Len(arg_A) = 2
    /\ arg_A[1] = <<ROne, ROne>>
    /\ arg_A[2] = <<RZero, RZero>>
    /\ outcome.raised = "ValueError"
    /\ outcome.msg = MSG_GAUSS_DIAGONAL

\* 0 < om < 2
InsideZeroTwo(om) == RLt(RZero, om) /\ RLt(om, RInt(2))

\* every diagonal entry exceeds, in magnitude, the sum of the magnitudes of the
\* other entries of its row
StrictlyDominant(M) ==
    \A i \in 1..Len(M) :
        RLt(SumList(List([j \in 1..Len(M) |-> IF j = i THEN RZero ELSE RAbs(M[i][j])])),
            RAbs(M[i][i]))

SorStarted == method = "gauss_seidel_sor" /\ pc # "ready"

\* no initial guess was computed and no sweep was performed
NoSorWork == loc_x = <<>> /\ loc_x_previous = <<>> /\ loc_iteration = 0

\* C15: gauss_seidel_sor checks its preconditions before any work: an omega <= 0
\* or >= 2 raises the omega ValueError whatever the matrix; a matrix that is not
\* strictly diagonally dominant raises the dominance ValueError when omega is
\* valid; in both cases no initial guess is computed and no sweep is performed.
C15_PreconditionsFirst ==
    SorStarted =>
        /\ ~InsideZeroTwo(arg_omega) =>
               /\ pc = "done"
               /\ outcome = Raised("ValueError", MSG_SOR_OMEGA)
               /\ NoSorWork
        /\ (InsideZeroTwo(arg_omega) /\ ~StrictlyDominant(arg_A)) =>
               /\ pc = "done"
               /\ outcome = Raised("ValueError", MSG_SOR_DOMINANCE)
               /\ NoSorWork
        /\ (InsideZeroTwo(arg_omega) /\ StrictlyDominant(arg_A)) =>
               /\ Len(loc_x) = Len(arg_b)
               /\ outcome.msg \notin {MSG_SOR_OMEGA, MSG_SOR_DOMINANCE}

C15_Witness ==
    /\ SorStarted
    /\ arg_omega = RInt(2)
    /\ Len(arg_A) = 2
    /\ ~StrictlyDominant(arg_A)
    /\ arg_max_iterations = 2
    /\ outcome = Raised("ValueError", MSG_SOR_OMEGA)
    /\ NoSorWork

\* the last sweep changed every component by less than the tolerance
ConvergedAtLastSweep ==
    /\ loc_iteration >= 1
    /\ RLt(max_difference(loc_x, loc_x_previous, Len(arg_b)), SOR_TOLERANCE)

\* C16: gauss_seidel_sor returns (x, k) where k is the number of sweeps done
\* when the largest change first fell below the tolerance, and k is
\* max_iterations when the cap was exhausted without that; so the returned
\* count equals max_iterations exactly when the run did not converge.
C16_CountTellsConvergence ==
    SolverReturned("gauss_seidel_sor") =>
        /\ outcome.value[1] = loc_x
        /\ ConvergedAtLastSweep => outcome.value[2] = loc_iteration
        /\ ~ConvergedAtLastSweep =>
               (outcome.value[2] = arg_max_iterations /\ loc_iteration = arg_max_iterations)
        /\ (outcome.value[2] = arg_max_iterations) <=> ~ConvergedAtLastSweep

PassedPreconditions == InsideZeroTwo(arg_omega) /\ StrictlyDominant(arg_A)

\* a diagonal entry the sweep refuses to divide by
SmallDiagonal(M) == \E i \in 1..Len(M) : RLt(RAbs(M[i][i]), SOR_EPS)

SorFinished == method = "gauss_seidel_sor" /\ pc = "done"

\* C17 as stated: every call of gauss_seidel_sor that passes the preconditions
\* ends, after at most max_iterations sweeps, by returning a result.
C17_AlwaysReturns ==
    (SorFinished /\ PassedPreconditions) =>
        /\ outcome.raised = ""
        /\ loc_iteration <= arg_max_iterations

\* C17 amended: every call of gauss_seidel_sor that passes the preconditions
\* terminates after at most max_iterations sweeps; it returns a result (at the
\* cap too, which is no error) unless a diagonal entry of A is below 1e-10 in
\* magnitude and max_iterations >= 1, in which case the first sweep raises the
\* diagonal ValueError.
C17_TerminatesWithinCap ==
    /\ [](SorStarted => loc_iteration <= arg_max_iterations)
    /\ (pc = "sweeping") ~> (pc = "done")
    /\ []((SorFinished /\ PassedPreconditions) =>
             IF SmallDiagonal(arg_A) /\ arg_max_iterations >= 1
             THEN outcome = Raised("ValueError", MSG_SOR_DIAGONAL) /\ loc_iteration = 0
             ELSE /\ outcome.raised = ""
                  /\ outcome.value[2] = loc_iteration)

C17_Witness ==
    /\ SolverReturned("gauss_seidel_sor")
    /\ Len(arg_A) = 2
    /\ arg_max_iterations = 3
    /\ loc_iteration = 3
    /\ ~ConvergedAtLastSweep
    /\ outcome.value = <<loc_x, 3>>

\* the result of the direct solver on the system of the call
DirectSolution == gauss(arg_A, arg_b, "scaled", GAUSS_TOLERANCE)

\* the largest distance of a component of v from the direct solution
SolutionError(v) == max_difference(v, DirectSolution.value, Len(arg_b))

Square(M) == \A i \in 1..Len(M) : Len(M[i]) = Len(M)

\* the call that has ended was given lists whose dimensions do not fit
DimensionsMismatched ==
    \/ method = "bjorck_pereyra" /\ Len(arg_x) # Len(arg_f)
    \/ method = "lu_decomposition" /\ ~Square(arg_A)
    \/ method \in {"doolittle", "gauss"} /\ (~Square(arg_A) \/ Len(arg_b) # Len(arg_A))

\* the outcome is the error that reports a dimension mismatch; the direct
\* solvers have no such error, their ValueErrors report pivots and zero rows
DimensionMismatch(o) ==
    /\ o.raised = "ValueError"
    /\ IF method = "bjorck_pereyra"
       THEN o.msg = "ERROR: Length mismatch"
       ELSE o.msg \notin (GaussMessages \cup {MSG_LU_PIVOT, MSG_LU_DIAGONAL})

\* C20 as stated: a call of the Vandermonde solver with a node list and a value
\* list of different lengths, and a call of the LU or Gaussian-elimination
\* solver with a non-square matrix or with a vector b whose length differs from
\* the size of the matrix, ends with the dimension-mismatch error.
C20_MismatchRejected ==
    (pc = "done" /\ DimensionsMismatched) => DimensionMismatch(outcome)

\* the value the sweep gives unknown i (from 1): the residual takes the entries
\* of x_new before i and the entries of x_old from i on
SeidelUpdate(x_old, x_new, i) ==
    LET n == Len(arg_b)
        R_i == RSub(RSub(arg_b[i],
                         SumList(List([j \in 1..(i - 1) |-> RMul(arg_A[i][j], x_new[j])]))),
                    SumList(List([j \in 1..(n - i + 1) |->
                                     RMul(arg_A[i][i + j - 1], x_old[i + j - 1])])))
    IN  RAdd(x_old[i], RMul(arg_omega, RDiv(R_i, arg_A[i][i])))

\* C21: within one sweep the unknowns are updated in index order and in place:
\* after a completed sweep every x_i is x_i + omega * R_i / A_ii with R_i computed
\* from the values of this sweep for j < i and of the previous sweep for j >= i.
C21_InPlaceSequentialUpdate ==
    (SorStarted /\ loc_iteration >= 1) =>
        /\ Len(loc_x) = Len(arg_b)
        /\ \A i \in 1..Len(arg_b) : loc_x[i] = SeidelUpdate(loc_x_previous, loc_x, i)

\* a second unknown whose update read a first unknown changed in the same sweep
C21_Witness ==
    /\ SorStarted
    /\ loc_iteration = 2
    /\ Len(arg_A) = 2
    /\ arg_A[2][1] # RZero
    /\ loc_x[1] # loc_x_previous[1]
    /\ loc_x[2] # loc_x_previous[2]
    /\ arg_omega = Rat(3, 2)

\* the message of the first check of a Newton builder
MinPointsMessage ==
    IF method = "newton_forward"
    THEN "At least 2 points required for Newton forward interpolation."
    ELSE "At least 2 points required for Newton backward interpolation."

\* C22: a Newton builder reports the violated preconditions in a fixed order:
\* fewer than 2 points first, then two equal x, then steps that are not
\* equidistant; a point set with two equal x raises the duplicate error also
\* when its sorted steps differ.
C22_ErrorOrder ==
    (BuilderDone /\ method \in NewtonMethods) =>
        IF Len(points) < 2
        THEN response.raised = "ValueError" /\ response.msg = MinPointsMessage
        ELSE IF SameX(points)
        THEN response.raised = "ValueError" /\ response.msg = MSG_DUPLICATE
        ELSE IF Deviates(SortedXs, EQ_TOLERANCE)
        THEN response.raised = "ValueError" /\ response.msg = MSG_EQUIDISTANT
        ELSE response.msg \notin {MinPointsMessage, MSG_DUPLICATE, MSG_EQUIDISTANT}

\* two equal x and unequal steps at once
C22_Witness ==
    /\ BuilderDone
    /\ method = "newton_forward"
    /\ Len(points) = 3
    /\ SameX(points)
    /\ Deviates(SortedXs, EQ_TOLERANCE)
    /\ response.msg = MSG_DUPLICATE

DifferenceTableDone == pc = "done" /\ method = "compute_difference_table"

\* level 0 is y, level k has n - k entries, each the difference of two
\* neighbours of level k - 1
DifferenceLevels(table, y) ==
    /\ table[1] = y
    /\ \A k \in 1..(Len(table) - 1) :
           /\ Len(table[k + 1]) = Len(y) - k
           /\ \A j \in 1..(Len(y) - k) :
                  table[k + 1][j] = RSub(table[k][j + 1], table[k][j])

\* C23 as stated: compute_difference_table(y) for n values returns exactly n
\* levels, level 0 a copy of y, level k with n - k entries
\* table[k][j] = table[k-1][j+1] - table[k-1][j].
C23_ExactlyNLevels ==
    DifferenceTableDone =>
        /\ outcome.raised = ""
        /\ Len(outcome.value) = Len(arg_f)
        /\ DifferenceLevels(outcome.value, arg_f)

\* C23 amended: compute_difference_table(y) for n >= 1 values returns exactly n
\* levels and for the empty list one level, the empty level 0; level 0 is a copy
\* of y, level k has n - k entries table[k][j] = table[k-1][j+1] - table[k-1][j].
C23_LevelsOfDifferences ==
    DifferenceTableDone =>
        /\ outcome.raised = ""
        /\ Len(outcome.value) = (IF Len(arg_f) = 0 THEN 1 ELSE Len(arg_f))
        /\ DifferenceLevels(outcome.value, arg_f)

C23_Witness ==
    /\ DifferenceTableDone
    /\ Len(arg_f) = 3
    /\ Len(outcome.value) = 3
    /\ outcome.value[3] = <<RInt(-2)>>

SelectionDone == pc = "done" /\ method = "select_optimal_x0_index"

\* the index i lies in lo..hi and x_eval lies in [x_values[i - left], x_values[i - left + 1]]
\* (indices from 0)
Brackets(i, left, lo, hi) ==
    /\ i \in lo..hi
    /\ RLe(At(arg_x, i - left), x_evals.v[1])
    /\ RLe(x_evals.v[1], At(arg_x, i - left + 1))

\* C24: for a sorted node list of n >= 2 values select_optimal_x0_index returns,
\* for "forward", 0 at or before the first node, n-2 at or after the last node
\* and otherwise an index i with x[i] <= x_eval <= x[i+1]; for "backward" 1,
\* n-1 and an index i with x[i-1] <= x_eval <= x[i]; any other tag is rejected
\* with a ValueError.
C24_SelectedIndex ==
    (SelectionDone /\ Len(arg_x) >= 2) =>
        LET n == Len(arg_x)
            first == RLe(x_evals.v[1], arg_x[1])
            last == RLe(arg_x[n], x_evals.v[1])
        IN  IF arg_method = "forward"
            THEN /\ outcome.raised = ""
                 /\ IF first THEN outcome.value = 0
                    ELSE IF last THEN outcome.value = n - 2
                    ELSE Brackets(outcome.value, 0, 0, n - 2)
            ELSE IF arg_method = "backward"
            THEN /\ outcome.raised = ""
                 /\ IF first THEN outcome.value = 1
                    ELSE IF last THEN outcome.value = n - 1
                    ELSE Brackets(outcome.value, 1, 1, n - 1)
            ELSE outcome.raised = "ValueError"

\* an evaluation point strictly inside the second interval, backward
C24_Witness ==
    /\ SelectionDone
    /\ arg_method = "backward"
    /\ arg_x = <<RInt(0), RInt(1), RInt(3)>>
    /\ x_evals.v[1] = Rat(3, 2)
    /\ outcome = Returned(2)

HermiteDone == pc = "done" /\ method = "get_hermite_coefficients"

\* C25: building the Hermite divided-difference table never divides by zero:
\* for any non-empty node sequence with one value and one derivative per node,
\* coinciding x-values included, get_hermite_coefficients returns a list of
\* 2n coefficients.
C25_NoZeroDivision ==
    (HermiteDone /\ Len(points) >= 1) =>
        /\ outcome.raised = ""
        /\ Len(outcome.value) = 2 * Len(points)

ForwardDone == pc = "done" /\ method = "get_newton_forward_coefficients"

BackwardDone == pc = "done" /\ method = "get_newton_backward_coefficients"

\* the returned polynomial takes the value arg_f[j] at the node arg_x[j]
\* (indices from 0)
Reproduces(j) == evaluate_polynomial(outcome.value, At(arg_x, j)) = At(arg_f, j)

\* the coefficients of the powers above degree are zero
DegreeAtMost(degree) ==
    \A i \in 0..(Len(outcome.value) - 1) : i > degree => At(outcome.value, i) = RZero

-----------------------------------------------------------------------------
(* The pipeline *)

\* review_input_node has run on the parsed_output of the state
Reviewed == pc \in {"parse_input", "END", "done"} /\ agent_steps > 0

Extracted == agent_state.parsed_output.v.requests

IsBatch ==
    /\ agent_state.parsed_output.kind = "RequestList"
    /\ agent_state.parsed_output.v.is_interpolation_request

ProcessDone == pc = "done" /\ method = "process_request"

TooFewPoints(req) == Len(req.points) < 2

DuplicateX(req) ==
    \E i, j \in 1..Len(req.points) : i < j /\ req.points[i][1] = req.points[j][1]

\* the request has fewer than 2 points or two points with the same x
HasValidationError(req) == TooFewPoints(req) \/ DuplicateX(req)

CancelTexts == {StrValue(TEXT_MIN_POINTS), StrValue(TEXT_DUPLICATE), StrValue(TEXT_EQUIDISTANT)}

SortedEquidistant(req) ==
    LET xs == SortSeq(XsOf(req.points), LAMBDA a, b : RLt(a, b))
    IN  \A i \in 1..(Len(xs) - 1) :
            RLt(RAbs(RSub(RSub(xs[i + 1], xs[i]), RSub(xs[2], xs[1]))), EQ_TOLERANCE)

PassesChecks(req) ==
    /\ ~HasValidationError(req)
    /\ arg_method \in {"newton_forward", "newton_backward"} => SortedEquidistant(req)

Ran == agent_state.clean_requests

\* what the math function of the call gives for each request of the batch
Responses == List([i \in 1..Len(Ran) |-> interpolate(arg_method, Ran[i])])

\* the requests of the batch that completed: the math function returned and
\* the graphing and aggregation did not raise
CompletedOf(responses) ==
    {i \in 1..Len(Ran) : env_graphing[i] /\ responses[i].raised = ""}

Completed == CompletedOf(Responses)

\* the k-th element of a set of indices
Kth(indices, k) == CHOOSE i \in indices : Cardinality({j \in indices : j <= i}) = k

LoopRan == ProcessDone /\ outcome.value.kind = "list"

\* C30: a request whose interpolation or graphing raises is skipped without
\* aborting the batch: the returned list has exactly one entry for each
\* request that completed, in request order, and none for a failed request.
C30_OneEntryPerCompleted ==
    LoopRan =>
        LET results == outcome.value.v
            responses == Responses
            completed == CompletedOf(responses)
        IN  /\ Len(results) = Cardinality(completed)
            /\ \A k \in 1..Len(results) :
                   /\ results[k].points = Ran[Kth(completed, k)].points
                   /\ results[k].coefficients = responses[Kth(completed, k)].coefficients

\* the first request of two fails in graphing, the second completes
C30_Witness ==
    /\ LoopRan
    /\ Len(Ran) = 2
    /\ Ran[1].points # Ran[2].points
    /\ Completed = {2}
    /\ Len(outcome.value.v) = 1
    /\ outcome.value.v[1].points = Ran[2].points

====
